---- MODULE Spec2Model ----
(***************************************************************************)
(* Model of the OPFS command executor of opfs-finder: the handler that     *)
(* src/background/index.ts injects into the inspected page, run against a  *)
(* model of the origin private file system.                                *)
(*                                                                         *)
(* A path string is a sequence of tokens: the separator "/" or a name (a   *)
(* maximal run of characters other than "/"), so two names are never       *)
(* adjacent.  A file's content is a sequence of bytes (0..255); a text is  *)
(* a sequence of UTF-16 code units; a base64 string is a sequence of       *)
(* base64 characters.  Optional parameters are sequences of length <= 1.   *)
(* lastModified and mimeType are not modelled.                             *)
(*                                                                         *)
(* The bridge around the executor is modelled too: the panel's dispatcher  *)
(* (src/panel/utils/rpc.ts), the message channel, the relay's listener and *)
(* executeOPFSCommand (src/background/index.ts) and the version-tagged     *)
(* handler of the page.                                                    *)
(*                                                                         *)
(* The panel's path utilities (src/panel/utils/path.ts) work on strings    *)
(* modelled as sequences of characters.                                    *)
(*                                                                         *)
(* fs.copy and fs.move are also followed one platform call at a time       *)
(* (SpecCopy), the executor of the module src/devtools/index.ts is set     *)
(* beside the inline one (SpecEquiv), and three parts of the panel are     *)
(* modelled: renaming (SpecRename), the persisted recents and favorites    *)
(* (SpecPersisted) and the image editor's history (SpecEditor).            *)
(***************************************************************************)
EXTENDS Integers, Sequences, FiniteSets, TLC

VARIABLES store, prev, last
\* the bridge: the dispatcher's module state, its calls, the messages in
\* flight, the relay's requests in progress and the page's global scope
VARIABLES panel, calls, channel, relay, page
rpc == <<panel, calls, channel, relay, page>>
\* the panel's path utilities (src/panel/utils/path.ts): the call in progress
VARIABLES util
\* a copy in progress in the page: the calls of copyEntry that have not
\* returned
VARIABLES copying
\* the panel's persisted store (usePersistedStore): the recent items and the
\* favorites
VARIABLES recents, favorites
\* the image editor: its history, the index of the state shown and the
\* image loads whose onload has not run
VARIABLES history, historyIndex, pending
ui == <<copying, recents, favorites, history, historyIndex, pending>>
vars ==
  <<store, prev, last, panel, calls, channel, relay, page, util, copying,
    recents, favorites, history, historyIndex, pending>>

(* ------------------------------- bounds -------------------------------- *)
\* the store holds at most MaxEntries files and directories under the root
MaxEntries == 4

(* --------------------------- program constants ------------------------- *)
DefaultTextMaxBytes == 2 * 1024 * 1024
DefaultBase64MaxBytes == 10 * 1024 * 1024
CHUNK_SIZE == 32768

(* ------------------------------ JS values ------------------------------ *)
None == <<>>
Some(x) == <<x>>
SLASH == "/"
Names == {"a", "b"}
RootPath == <<>>

\* the iteration orders a directory's entries() may produce: a sequence
\* holding every name once
Orders == {<<"a", "b">>, <<"b", "a">>}

\* the bytes the files of a store hold
RECURSIVE SumLen(_, _)
SumLen(st, ps) ==
  IF ps = {} THEN 0
  ELSE LET p == CHOOSE q \in ps : TRUE
       IN Len(st[p].content) + SumLen(st, ps \ {p})

\* the number of entries under the root
Entries(st) == Cardinality(DOMAIN st) - 1

(* ----------------------------- path strings ---------------------------- *)
\* path.split('/'): the segments between separators, empty ones included
RECURSIVE SplitFrom(_, _, _)
SplitFrom(s, i, cur) ==
  IF i > Len(s) THEN <<cur>>
  ELSE IF s[i] = SLASH THEN <<cur>> \o SplitFrom(s, i + 1, "")
       ELSE SplitFrom(s, i + 1, s[i])

Split(s) == SplitFrom(s, 1, "")

\* path.split('/').filter((part) => part.length > 0)
Parts(path) == SelectSeq(Split(path), LAMBDA part : part # "")

\* parts.join('/')
RECURSIVE JoinSlash(_)
JoinSlash(parts) ==
  IF Len(parts) = 0 THEN <<>>
  ELSE IF Len(parts) = 1 THEN <<parts[1]>>
       ELSE <<parts[1], SLASH>> \o JoinSlash(Tail(parts))

Front(s) == SubSeq(s, 1, Len(s) - 1)

getParentPath(path) ==
  LET parts == Parts(path)
  IN IF Len(parts) <= 1 THEN <<SLASH>>
     ELSE <<SLASH>> \o JoinSlash(Front(parts))

getBasename(path) ==
  LET parts == Parts(path)
  IN IF Len(parts) = 0 THEN "" ELSE parts[Len(parts)]

(* --------------------- the origin private file system ------------------ *)
\* store maps the segment sequence of every existing entry to its node; the
\* root <<>> is always a directory
DirNode == [kind |-> "directory", content |-> <<>>]
FileNode(c) == [kind |-> "file", content |-> c]
EmptyStore == (RootPath :> DirNode)

Exists(st, p) == p \in DOMAIN st
IsDir(st, p) == Exists(st, p) /\ st[p].kind = "directory"
IsFile(st, p) == Exists(st, p) /\ st[p].kind = "file"
IsPrefix(p, q) == Len(p) <= Len(q) /\ SubSeq(q, 1, Len(p)) = p
Kids(st, d) == {q \in DOMAIN st : Len(q) = Len(d) + 1 /\ IsPrefix(d, q)}
KidNames(st, d) == {q[Len(q)] : q \in Kids(st, d)}
Subtree(st, p) == {q \in DOMAIN st : IsPrefix(p, q)}

\* results of the asynchronous operations: err = "" when the promise
\* resolves, else the name of the exception it rejects with; st is the store
\* the operation leaves, h the handle (the entry's segment sequence)
Ok(st, h) == [err |-> "", st |-> st, h |-> h]
\* The({F(x) : x \in {e}}) is F(e) with e evaluated once
The(S) == CHOOSE v \in S : TRUE
Fail(st, e) == [err |-> e, st |-> st, h |-> RootPath]

ValidName(n) == n # "" /\ n # "." /\ n # ".."

\* getDirectoryHandle whose create puts a directory in the place of a file
DirGetDirectoryHandleReplacing(st, d, name, create) ==
  LET q == Append(d, name)
  IN IF ~ValidName(name) THEN Fail(st, "TypeError")
     ELSE IF IsFile(st, q) /\ create THEN Ok([st EXCEPT ![q] = DirNode], q)
     ELSE IF IsFile(st, q) THEN Fail(st, "TypeMismatchError")
     ELSE IF IsDir(st, q) THEN Ok(st, q)
     ELSE IF create THEN Ok((q :> DirNode) @@ st, q)
     ELSE Fail(st, "NotFoundError")

\* getDirectoryHandle that refuses to create what exists
DirGetDirectoryHandleExclusive(st, d, name, create) ==
  LET q == Append(d, name)
  IN IF ~ValidName(name) THEN Fail(st, "TypeError")
     ELSE IF IsFile(st, q) THEN Fail(st, "TypeMismatchError")
     ELSE IF IsDir(st, q) /\ create THEN Fail(st, "InvalidModificationError")
     ELSE IF IsDir(st, q) THEN Ok(st, q)
     ELSE IF create THEN Ok((q :> DirNode) @@ st, q)
     ELSE Fail(st, "NotFoundError")

\* FileSystemDirectoryHandle.getDirectoryHandle(name, {create})
DirGetDirectoryHandle(st, d, name, create) ==
  LET q == Append(d, name)
  IN IF ~ValidName(name) THEN Fail(st, "TypeError")
     ELSE IF IsFile(st, q) THEN Fail(st, "TypeMismatchError")
     ELSE IF IsDir(st, q) THEN Ok(st, q)
     ELSE IF create THEN Ok((q :> DirNode) @@ st, q)
     ELSE Fail(st, "NotFoundError")

\* getFileHandle whose create empties the file that exists
DirGetFileHandleTruncating(st, d, name, create) ==
  LET q == Append(d, name)
  IN IF ~ValidName(name) THEN Fail(st, "TypeError")
     ELSE IF IsDir(st, q) THEN Fail(st, "TypeMismatchError")
     ELSE IF IsFile(st, q) /\ ~create THEN Ok(st, q)
     ELSE IF create THEN Ok((q :> FileNode(<<>>)) @@ st, q)
     ELSE Fail(st, "NotFoundError")

\* FileSystemDirectoryHandle.getFileHandle(name, {create})
DirGetFileHandle(st, d, name, create) ==
  LET q == Append(d, name)
  IN IF ~ValidName(name) THEN Fail(st, "TypeError")
     ELSE IF IsDir(st, q) THEN Fail(st, "TypeMismatchError")
     ELSE IF IsFile(st, q) THEN Ok(st, q)
     ELSE IF create THEN Ok((q :> FileNode(<<>>)) @@ st, q)
     ELSE Fail(st, "NotFoundError")

\* FileSystemDirectoryHandle.removeEntry(name, {recursive})
DirRemoveEntry(st, d, name, recursive) ==
  LET q == Append(d, name)
  IN IF ~ValidName(name) THEN Fail(st, "TypeError")
     ELSE IF ~Exists(st, q) THEN Fail(st, "NotFoundError")
     ELSE IF IsDir(st, q) /\ Kids(st, q) # {} /\ ~recursive
          THEN Fail(st, "InvalidModificationError")
     ELSE Ok([p \in DOMAIN st \ Subtree(st, q) |-> st[p]], d)

\* a write that keeps the bytes of the old content beyond the new data
WriteFileKeepTail(st, h, data) ==
  [st EXCEPT ![h] = FileNode(data \o SubSeq(st[h].content, Len(data) + 1,
                                             Len(st[h].content)))]

\* createWritable(); write(data); close(): the file holds exactly data
WriteFile(st, h, data) == [st EXCEPT ![h] = FileNode(data)]

(* ----------------------------- path resolver --------------------------- *)
\* for (const part of parts) current = await current.getDirectoryHandle(part, {create})
RECURSIVE WalkDirs(_, _, _, _)
WalkDirs(st, current, parts, create) ==
  IF Len(parts) = 0 THEN Ok(st, current)
  ELSE The({IF r.err # "" THEN r
             ELSE WalkDirs(r.st, r.h, Tail(parts), create) :
             r \in {DirGetDirectoryHandle(st, current, Head(parts), create)}})

\* a resolver that creates what is missing whatever its caller asked
getDirectoryHandleCreating(st, path, create) ==
  IF path = <<SLASH>> \/ path = <<>> THEN Ok(st, RootPath)
  ELSE WalkDirs(st, RootPath, Parts(path), TRUE)

getDirectoryHandle(st, path, create) ==
  IF path = <<SLASH>> \/ path = <<>> THEN Ok(st, RootPath)
  ELSE WalkDirs(st, RootPath, Parts(path), create)

getFileHandle(st, path, create) ==
  LET parts == Parts(path)
  IN IF Len(parts) = 0 THEN Fail(st, "Error")
     ELSE The({IF w.err # "" THEN w
                ELSE DirGetFileHandle(w.st, w.h, parts[Len(parts)], create) :
                w \in {WalkDirs(st, RootPath, Front(parts), create)}})

\* getHandleAtPath(root, path) as every caller uses it: no options, so
\* create and isFile are undefined (falsy)
getHandleAtPath(st, path) ==
  LET parts == Parts(path)
  IN IF Len(parts) = 0 THEN Ok(st, RootPath)
     ELSE LET lastName == parts[Len(parts)]
          IN The({IF w.err # "" THEN w
                  ELSE The({IF d.err = "" THEN d
                            ELSE DirGetFileHandle(w.st, w.h, lastName, FALSE) :
                            d \in {DirGetDirectoryHandle(w.st, w.h, lastName, FALSE)}}) :
                  w \in {WalkDirs(st, RootPath, Front(parts), FALSE)}})

(* ------------------------------ encodings ------------------------------ *)
IsHighSurrogate(u) == u >= 55296 /\ u <= 56319
IsLowSurrogate(u) == u >= 56320 /\ u <= 57343
REPLACEMENT == 65533

\* conversion of a JS string to a USVString (write() takes a USVString):
\* the code points of the string, an unpaired surrogate becoming U+FFFD
RECURSIVE ToScalarValues(_)
ToScalarValues(units) ==
  IF Len(units) = 0 THEN <<>>
  ELSE LET u == units[1]
       IN IF IsHighSurrogate(u) /\ Len(units) >= 2 /\ IsLowSurrogate(units[2])
          THEN <<65536 + (u - 55296) * 1024 + (units[2] - 56320)>>
               \o ToScalarValues(SubSeq(units, 3, Len(units)))
          ELSE IF IsHighSurrogate(u) \/ IsLowSurrogate(u)
               THEN <<REPLACEMENT>> \o ToScalarValues(Tail(units))
               ELSE <<u>> \o ToScalarValues(Tail(units))

\* the code units of a sequence of code points
RECURSIVE ToCodeUnits(_)
ToCodeUnits(cps) ==
  IF Len(cps) = 0 THEN <<>>
  ELSE LET c == cps[1]
       IN (IF c >= 65536
           THEN <<55296 + ((c - 65536) \div 1024), 56320 + ((c - 65536) % 1024)>>
           ELSE <<c>>) \o ToCodeUnits(Tail(cps))

Utf8EncodeCodePoint(c) ==
  IF c < 128 THEN <<c>>
  ELSE IF c < 2048 THEN <<192 + (c \div 64), 128 + (c % 64)>>
  ELSE IF c < 65536
       THEN <<224 + (c \div 4096), 128 + ((c \div 64) % 64), 128 + (c % 64)>>
       ELSE <<240 + (c \div 262144), 128 + ((c \div 4096) % 64),
              128 + ((c \div 64) % 64), 128 + (c % 64)>>

RECURSIVE Utf8EncodeAll(_)
Utf8EncodeAll(cps) ==
  IF Len(cps) = 0 THEN <<>>
  ELSE Utf8EncodeCodePoint(cps[1]) \o Utf8EncodeAll(Tail(cps))

\* writable.write(text): the UTF-8 bytes of the text
Utf8Encode(text) == Utf8EncodeAll(ToScalarValues(text))

\* the UTF-8 decoder of the Encoding standard: malformed or cut-off
\* sequences decode to U+FFFD
RECURSIVE Utf8Dec(_, _, _, _, _, _, _)
Utf8Dec(b, i, cp, seen, needed, lower, upper) ==
  IF i > Len(b) THEN (IF needed # 0 THEN <<REPLACEMENT>> ELSE <<>>)
  ELSE LET x == b[i]
       IN IF needed = 0
          THEN IF x <= 127 THEN <<x>> \o Utf8Dec(b, i + 1, 0, 0, 0, 128, 191)
               ELSE IF x >= 194 /\ x <= 223
                    THEN Utf8Dec(b, i + 1, x % 32, 0, 1, 128, 191)
               ELSE IF x >= 224 /\ x <= 239
                    THEN Utf8Dec(b, i + 1, x % 16, 0, 2,
                                 IF x = 224 THEN 160 ELSE 128,
                                 IF x = 237 THEN 159 ELSE 191)
               ELSE IF x >= 240 /\ x <= 244
                    THEN Utf8Dec(b, i + 1, x % 8, 0, 3,
                                 IF x = 240 THEN 144 ELSE 128,
                                 IF x = 244 THEN 143 ELSE 191)
               ELSE <<REPLACEMENT>> \o Utf8Dec(b, i + 1, 0, 0, 0, 128, 191)
          ELSE IF x < lower \/ x > upper
               THEN <<REPLACEMENT>> \o Utf8Dec(b, i, 0, 0, 0, 128, 191)
               ELSE IF seen + 1 = needed
                    THEN <<cp * 64 + (x % 64)>> \o Utf8Dec(b, i + 1, 0, 0, 0, 128, 191)
                    ELSE Utf8Dec(b, i + 1, cp * 64 + (x % 64), seen + 1, needed, 128, 191)

HasBOM(b) == Len(b) >= 3 /\ b[1] = 239 /\ b[2] = 187 /\ b[3] = 191

\* blob.text(): "UTF-8 decode", which drops a leading byte order mark
BlobText(b) ==
  ToCodeUnits(Utf8Dec(IF HasBOM(b) THEN SubSeq(b, 4, Len(b)) ELSE b,
                      1, 0, 0, 0, 128, 191))

\* file.slice(0, max)
BlobSlice(b, max) == SubSeq(b, 1, IF max < Len(b) THEN max ELSE Len(b))

\* base64 characters are 0..63 (the alphabet, by value) and PAD for '='
PAD == 64

\* btoa(binary)
RECURSIVE btoa(_)
btoa(bin) ==
  IF Len(bin) = 0 THEN <<>>
  ELSE IF Len(bin) = 1
       THEN <<bin[1] \div 4, (bin[1] % 4) * 16, PAD, PAD>>
  ELSE IF Len(bin) = 2
       THEN <<bin[1] \div 4, (bin[1] % 4) * 16 + (bin[2] \div 16),
              (bin[2] % 16) * 4, PAD>>
  ELSE <<bin[1] \div 4, (bin[1] % 4) * 16 + (bin[2] \div 16),
         (bin[2] % 16) * 4 + (bin[3] \div 64), bin[3] % 64>>
       \o btoa(SubSeq(bin, 4, Len(bin)))

\* the bytes of a padding-free run of base64 characters
RECURSIVE DecodeSextets(_)
DecodeSextets(d) ==
  IF Len(d) <= 1 THEN <<>>
  ELSE IF Len(d) = 2 THEN <<d[1] * 4 + (d[2] \div 16)>>
  ELSE IF Len(d) = 3
       THEN <<d[1] * 4 + (d[2] \div 16), (d[2] % 16) * 16 + (d[3] \div 4)>>
  ELSE <<d[1] * 4 + (d[2] \div 16), (d[2] % 16) * 16 + (d[3] \div 4),
         (d[3] % 4) * 64 + d[4]>>
       \o DecodeSextets(SubSeq(d, 5, Len(d)))

\* atob(base64), the forgiving-base64 decode: err is "InvalidCharacterError"
\* when the data is not base64
atob(s) ==
  LET n == Len(s)
      stripped == IF n % 4 = 0 /\ n > 0 /\ s[n] = PAD
                  THEN IF s[n - 1] = PAD THEN SubSeq(s, 1, n - 2)
                       ELSE SubSeq(s, 1, n - 1)
                  ELSE s
  IN IF Len(stripped) % 4 = 1 \/ \E i \in 1..Len(stripped) : stripped[i] = PAD
     THEN [err |-> "InvalidCharacterError", bin |-> <<>>]
     ELSE [err |-> "", bin |-> DecodeSextets(stripped)]

\* atob(undefined) decodes the string "undefined": its nine characters as
\* base64 digits
UndefinedAsBase64 == <<46, 39, 29, 30, 31, 34, 39, 30, 29>>

\* for (i...) binary += String.fromCharCode(bytes[i])
BytesToBinary(bytes) == [i \in 1..Len(bytes) |-> bytes[i]]
\* a decoding that keeps only 7 bits of every character
BinaryToBytes7Bit(bin) == [i \in 1..Len(bin) |-> bin[i] % 128]
\* for (i...) bytes[i] = binary.charCodeAt(i)   (a Uint8Array keeps 8 bits)
BinaryToBytes(bin) == [i \in 1..Len(bin) |-> bin[i] % 256]

\* uint8ArrayToBase64: the binary string is built chunk by chunk
RECURSIVE ChunksToBinary(_, _)
ChunksToBinary(bytes, i) ==
  IF i > Len(bytes) THEN <<>>
  ELSE LET e == IF i + CHUNK_SIZE - 1 < Len(bytes) THEN i + CHUNK_SIZE - 1
                ELSE Len(bytes)
       IN BytesToBinary(SubSeq(bytes, i, e)) \o ChunksToBinary(bytes, i + CHUNK_SIZE)

uint8ArrayToBase64(bytes) == btoa(ChunksToBinary(bytes, 1))
base64ToUint8Array(base64) == BinaryToBytes(atob(base64).bin)

(* ------------------------------ operations ---------------------------- *)
\* results of the operations of the executor: err as above, st the store
\* left behind, val the value the promise resolves with
Null == "null"
Done(st, v) == [err |-> "", st |-> st, val |-> v]
Thrown(st, e) == [err |-> e, st |-> st, val |-> Null]

\* the names of a set in the order the iteration produces them
OrderedNames(S, ord) == SelectSeq(ord, LAMBDA n : n \in S)

FSEntry(name, path, kind, size, children) ==
  [name |-> name, path |-> path, kind |-> kind, size |-> size,
   children |-> children]

RECURSIVE list(_, _, _, _, _, _)
RECURSIVE ListEntries(_, _, _, _, _, _, _, _, _)
\* a listing that descends one level further than asked
listTooDeep(st, path, depth, includeFiles, includeDirs, ord) ==
  The({IF dir.err # "" THEN Thrown(st, dir.err)
       ELSE ListEntries(st, path, depth + 1, includeFiles, includeDirs, ord,
                        dir.h, OrderedNames(KidNames(st, dir.h), ord), <<>>) :
       dir \in {getDirectoryHandle(st, path, FALSE)}})

\* a listing that ignores the filters
listUnfiltered(st, path, depth, includeFiles, includeDirs, ord) ==
  The({IF dir.err # "" THEN Thrown(st, dir.err)
       ELSE ListEntries(st, path, depth, TRUE, TRUE, ord, dir.h,
                        OrderedNames(KidNames(st, dir.h), ord), <<>>) :
       dir \in {getDirectoryHandle(st, path, FALSE)}})

list(st, path, depth, includeFiles, includeDirs, ord) ==
  The({IF dir.err # "" THEN Thrown(st, dir.err)
       ELSE ListEntries(st, path, depth, includeFiles, includeDirs, ord, dir.h,
                        OrderedNames(KidNames(st, dir.h), ord), <<>>) :
       dir \in {getDirectoryHandle(st, path, FALSE)}})

\* the body of "for await (const [name, handle] of dir.entries())"
ListEntries(st, path, depth, includeFiles, includeDirs, ord, d, names, entries) ==
  IF Len(names) = 0 THEN Done(st, entries)
  ELSE
    LET name == Head(names)
        kind == st[Append(d, name)].kind
        entryPath == IF path = <<SLASH>> THEN <<SLASH, name>>
                     ELSE path \o <<SLASH, name>>
        Rest(es) == ListEntries(st, path, depth, includeFiles, includeDirs,
                                ord, d, Tail(names), es)
    IN IF kind = "file" /\ ~includeFiles THEN Rest(entries)
       ELSE IF kind = "directory" /\ ~includeDirs THEN Rest(entries)
       ELSE IF kind = "file"
            THEN Rest(Append(entries,
                   FSEntry(name, entryPath, kind,
                           Some(Len(st[Append(d, name)].content)), None)))
       ELSE IF depth > 1
            THEN The({IF sub.err # "" THEN sub
                      ELSE Rest(Append(entries,
                             FSEntry(name, entryPath, kind, None, Some(sub.val)))) :
                      sub \in {list(st, entryPath, depth - 1, includeFiles,
                                    includeDirs, ord)}})
       ELSE Rest(Append(entries, FSEntry(name, entryPath, kind, None, None)))

stat(st, path) ==
  The({IF handle.err # "" THEN Thrown(st, handle.err)
       ELSE IF st[handle.h].kind = "directory"
            THEN Done(st, [kind |-> "directory", size |-> 0])
            ELSE Done(st, [kind |-> "file", size |-> Len(st[handle.h].content)]) :
       handle \in {getHandleAtPath(st, path)}})

\* maxBytes || dflt: an absent maxBytes and the falsy 0 both give the default
MaxOrDefault(maxBytes, dflt) ==
  IF maxBytes = None \/ maxBytes[1] = 0 THEN dflt ELSE maxBytes[1]

\* a read that opens its file as a write does, creating what is missing
readTextCreating(st, path, maxBytes) ==
  The({IF handle.err # "" THEN Thrown(handle.st, handle.err)
       ELSE LET file == handle.st[handle.h].content
                max == MaxOrDefault(maxBytes, DefaultTextMaxBytes)
                truncated == Len(file) > max
                blob == IF truncated THEN BlobSlice(file, max) ELSE file
            IN Done(handle.st, [text |-> BlobText(blob), truncated |-> truncated]) :
       handle \in {getFileHandle(st, path, TRUE)}})

readText(st, path, maxBytes) ==
  The({IF handle.err # "" THEN Thrown(st, handle.err)
       ELSE LET file == st[handle.h].content
                max == MaxOrDefault(maxBytes, DefaultTextMaxBytes)
                truncated == Len(file) > max
                blob == IF truncated THEN BlobSlice(file, max) ELSE file
            IN Done(st, [text |-> BlobText(blob), truncated |-> truncated]) :
       handle \in {getFileHandle(st, path, FALSE)}})

writeText(st, path, text) ==
  The({IF handle.err # "" THEN Thrown(handle.st, handle.err)
       ELSE Done(WriteFile(handle.st, handle.h, Utf8Encode(text)), Null) :
       handle \in {getFileHandle(st, path, TRUE)}})

\* writeText(path, undefined): the file is opened (and created), then
\* writable.write(undefined) rejects with a TypeError and nothing is written
writeUndefined(st, path) ==
  The({IF handle.err # "" THEN Thrown(handle.st, handle.err)
       ELSE Thrown(handle.st, "TypeError") :
       handle \in {getFileHandle(st, path, TRUE)}})

readBase64(st, path, maxBytes) ==
  The({IF handle.err # "" THEN Thrown(st, handle.err)
       ELSE LET file == st[handle.h].content
                max == MaxOrDefault(maxBytes, DefaultBase64MaxBytes)
                truncated == Len(file) > max
                blob == IF truncated THEN BlobSlice(file, max) ELSE file
            IN Done(st, [base64 |-> btoa(BytesToBinary(blob)),
                         truncated |-> truncated]) :
       handle \in {getFileHandle(st, path, FALSE)}})

\* the file is opened (and created) before atob runs
writeBase64(st, path, base64) ==
  The({IF handle.err # "" THEN Thrown(handle.st, handle.err)
       ELSE LET binary == atob(base64)
            IN IF binary.err # "" THEN Thrown(handle.st, binary.err)
               ELSE Done(WriteFile(handle.st, handle.h, BinaryToBytes(binary.bin)),
                         Null) :
       handle \in {getFileHandle(st, path, TRUE)}})

mkdir(st, path) ==
  The({IF r.err # "" THEN Thrown(r.st, r.err) ELSE Done(r.st, Null) :
       r \in {getDirectoryHandle(st, path, TRUE)}})

createFile(st, path) ==
  The({IF r.err # "" THEN Thrown(r.st, r.err) ELSE Done(r.st, Null) :
       r \in {getFileHandle(st, path, TRUE)}})

\* a delete that always removes recursively
deleteEntryForced(st, path, recursive) ==
  LET parentPath == getParentPath(path)
      name == getBasename(path)
  IN The({IF parent.err # "" THEN Thrown(st, parent.err)
          ELSE The({IF r.err # "" THEN Thrown(st, r.err) ELSE Done(r.st, Null) :
                    r \in {DirRemoveEntry(st, parent.h, name, TRUE)}}) :
          parent \in {getDirectoryHandle(st, parentPath, FALSE)}})

deleteEntry(st, path, recursive) ==
  LET parentPath == getParentPath(path)
      name == getBasename(path)
  IN The({IF parent.err # "" THEN Thrown(st, parent.err)
          ELSE The({IF r.err # "" THEN Thrown(st, r.err) ELSE Done(r.st, Null) :
                    r \in {DirRemoveEntry(st, parent.h, name, recursive)}}) :
          parent \in {getDirectoryHandle(st, parentPath, FALSE)}})

\* a copy only adds entries: once the store has outgrown the model's bound
\* the copy is cut off and reported as "Overflow" (a copy that never
\* returns, such as a directory copied into itself, always ends so)
Overflow(st) == Entries(st) > MaxEntries

\* entries() of a directory that changes while it is iterated: the File System
\* standard returns the children present at each step (live), an
\* implementation that reads the directory once returns the children present
\* at the first step; both are outcomes of the iteration
\* a file copy that creates the destination and writes nothing
CopyFileToEmpty(st, content, to) ==
  The({IF destHandle.err # "" THEN Thrown(destHandle.st, destHandle.err)
       ELSE Done(WriteFile(destHandle.st, destHandle.h, <<>>), Null) :
       destHandle \in {getFileHandle(st, to, TRUE)}})

\* the file branch of copyEntry: the content read from the source is written
\* to the file at to, created with its parents when missing
CopyFileTo(st, content, to) ==
  The({IF destHandle.err # "" THEN Thrown(destHandle.st, destHandle.err)
       ELSE Done(WriteFile(destHandle.st, destHandle.h, content), Null) :
       destHandle \in {getFileHandle(st, to, TRUE)}})

RECURSIVE copyEntry(_, _, _, _, _, _)
RECURSIVE CopyChildren(_, _, _, _, _, _, _, _, _)
copyEntry(st, from, to, overwrite, ord, live) ==
  IF Overflow(st) THEN Thrown(st, "Overflow")
  ELSE
    The({IF sourceHandle.err # "" THEN Thrown(st, sourceHandle.err)
         ELSE IF st[sourceHandle.h].kind = "file"
              THEN CopyFileTo(st, st[sourceHandle.h].content, to)
              ELSE The({IF m.err # "" THEN m
                        ELSE CopyChildren(m.st, sourceHandle.h, from, to,
                                          overwrite, ord, live,
                                          KidNames(m.st, sourceHandle.h), {}) :
                        m \in {mkdir(st, to)}}) :
         sourceHandle \in {getHandleAtPath(st, from)}})

\* the body of "for await (const [name] of sourceDir.entries())"
CopyChildren(st, dir, from, to, overwrite, ord, live, snapshot, past) ==
  LET present == IF live THEN KidNames(st, dir) ELSE snapshot
      names == OrderedNames(present \ past, ord)
  IN IF Len(names) = 0 THEN Done(st, Null)
     ELSE LET name == Head(names)
          IN The({IF c.err # "" THEN c
                  ELSE CopyChildren(c.st, dir, from, to, overwrite, ord, live,
                                    snapshot, past \cup {name}) :
                  c \in {copyEntry(st, from \o <<SLASH, name>>,
                                   to \o <<SLASH, name>>, overwrite, ord, live)}})

\* a move that refuses an existing destination unless overwrite is set
moveEntryGuarded(st, from, to, overwrite, ord, live) ==
  IF ~overwrite /\ getHandleAtPath(st, to).err = ""
  THEN Thrown(st, "InvalidModificationError")
  ELSE The({IF c.err # "" THEN c
            ELSE IF Overflow(c.st) THEN Thrown(c.st, "Overflow")
            ELSE deleteEntry(c.st, from, TRUE) :
            c \in {copyEntry(st, from, to, overwrite, ord, live)}})

moveEntry(st, from, to, overwrite, ord, live) ==
  The({IF c.err # "" THEN c
       ELSE IF Overflow(c.st) THEN Thrown(c.st, "Overflow")
       ELSE deleteEntry(c.st, from, TRUE) :
       c \in {copyEntry(st, from, to, overwrite, ord, live)}})

(* ------------------------------ the handler ---------------------------- *)
Commands ==
  {"opfs.isAvailable", "opfs.estimate", "fs.list", "fs.stat", "fs.readText",
   "fs.writeText", "fs.readBase64", "fs.writeBase64", "fs.mkdir",
   "fs.createFile", "fs.delete", "fs.copy", "fs.move"}

\* params: every field the commands read, None when the caller left it out
NoParams ==
  [path |-> None, depth |-> None, includeFiles |-> None, includeDirs |-> None,
   maxBytes |-> None, text |-> None, base64 |-> None, recursive |-> None,
   from |-> None, to |-> None, overwrite |-> None]

\* a catch block whose code starts as the failure's own name
ErrorCodeRaw(name) ==
  IF name = "NotFoundError" THEN "NOT_FOUND"
  ELSE IF name = "NotAllowedError" THEN "NOT_ALLOWED"
  ELSE IF name = "InvalidModificationError" THEN "INVALID_MODIFICATION"
  ELSE IF name = "NoModificationAllowedError" THEN "LOCKED"
  ELSE IF name = "TypeMismatchError" THEN "TYPE_MISMATCH"
  ELSE name

\* a catch block with the codes of two rows exchanged
ErrorCodeSwapped(name) ==
  IF name = "NotFoundError" THEN "NOT_FOUND"
  ELSE IF name = "NotAllowedError" THEN "NOT_ALLOWED"
  ELSE IF name = "InvalidModificationError" THEN "LOCKED"
  ELSE IF name = "NoModificationAllowedError" THEN "INVALID_MODIFICATION"
  ELSE IF name = "TypeMismatchError" THEN "TYPE_MISMATCH"
  ELSE "UNKNOWN_ERROR"

\* the catch block: exception name -> error code
ErrorCode(name) ==
  IF name = "NotFoundError" THEN "NOT_FOUND"
  ELSE IF name = "NotAllowedError" THEN "NOT_ALLOWED"
  ELSE IF name = "InvalidModificationError" THEN "INVALID_MODIFICATION"
  ELSE IF name = "NoModificationAllowedError" THEN "LOCKED"
  ELSE IF name = "TypeMismatchError" THEN "TYPE_MISMATCH"
  ELSE "UNKNOWN_ERROR"

\* the response without its message: {ok: true, data} or
\* {ok: false, error: {code}}
OkResponse(data) == [ok |-> TRUE, code |-> "", data |-> data]
ErrorResponse(code) == [ok |-> FALSE, code |-> code, data |-> Null]

\* exceptions: the name and the message of what was thrown; messages are
\* sequences of strings
NoException == [name |-> "", message |-> <<>>]
\* the failures the model's store raises: 'Invalid file path' for the
\* executor's own Error, else the platform's text for the failure
Exception(name) ==
  [name |-> name,
   message |-> IF name = "Error" THEN <<"Invalid file path">>
               ELSE <<"message of", name>>]
\* err.message || String(e): an empty message gives the failure's string
\* form, which is its name
ErrorMessage(e) == IF e.message = <<>> THEN <<e.name>> ELSE e.message

\* a boolean parameter handed to a parameter with default false
Flag(opt) == opt # None /\ opt[1]

\* the switch of window.__OPFS_HANDLER__; a path left out is undefined and
\* path.split throws a TypeError before the store is touched
Dispatch(st, command, params, ord, live) ==
  IF command = "opfs.isAvailable" THEN Done(st, [available |-> TRUE])
  ELSE IF command = "opfs.estimate"
       THEN Done(st, [usage |-> SumLen(st, DOMAIN st), quota |-> 0])
  ELSE IF command \in {"fs.copy", "fs.move"}
       THEN IF params.from = None \/ params.to = None THEN Thrown(st, "TypeError")
            ELSE IF command = "fs.copy"
                 THEN copyEntry(st, params.from[1], params.to[1],
                                Flag(params.overwrite), ord, live)
                 ELSE moveEntry(st, params.from[1], params.to[1],
                                Flag(params.overwrite), ord, live)
  ELSE IF params.path = None THEN Thrown(st, "TypeError")
  ELSE IF command = "fs.list"
       THEN list(st, params.path[1],
                 IF params.depth = None \/ params.depth[1] = 0 THEN 1
                 ELSE params.depth[1],
                 params.includeFiles # Some(FALSE),
                 params.includeDirs # Some(FALSE), ord)
  ELSE IF command = "fs.stat" THEN stat(st, params.path[1])
  ELSE IF command = "fs.readText"
       THEN readText(st, params.path[1], params.maxBytes)
  ELSE IF command = "fs.writeText"
       THEN IF params.text = None THEN writeUndefined(st, params.path[1])
            ELSE writeText(st, params.path[1], params.text[1])
  ELSE IF command = "fs.readBase64"
       THEN readBase64(st, params.path[1], params.maxBytes)
  ELSE IF command = "fs.writeBase64"
       THEN IF params.base64 = None
            THEN writeBase64(st, params.path[1], UndefinedAsBase64)
            ELSE writeBase64(st, params.path[1], params.base64[1])
  ELSE IF command = "fs.mkdir" THEN mkdir(st, params.path[1])
  ELSE IF command = "fs.createFile" THEN createFile(st, params.path[1])
  ELSE deleteEntry(st, params.path[1], Flag(params.recursive))

\* window.__OPFS_HANDLER__(command, params): the response and the store it
\* leaves; overflow when the command was cut off at the model's bound
\* a handler whose switch has no default case: an unknown name runs the
\* last case
HandlerNoDefault(st, command, params, ord, live) ==
  The({[st |-> r.st,
        resp |-> IF r.err = "" THEN OkResponse(r.val)
                 ELSE ErrorResponse(ErrorCode(r.err)),
        raised |-> IF r.err = "" THEN NoException ELSE Exception(r.err),
        message |-> IF r.err = "" THEN <<>>
                    ELSE ErrorMessage(Exception(r.err)),
        overflow |-> r.err = "Overflow" \/ Overflow(r.st)] :
       r \in {Dispatch(st, command, params, ord, live)}})

Handler(st, command, params, ord, live) ==
  IF command \notin Commands
  THEN [st |-> st, resp |-> ErrorResponse("UNKNOWN_COMMAND"),
        raised |-> NoException, message |-> <<"Unknown command: ", command>>,
        overflow |-> FALSE]
  ELSE The({[st |-> r.st,
             resp |-> IF r.err = "" THEN OkResponse(r.val)
                      ELSE ErrorResponse(ErrorCode(r.err)),
             raised |-> IF r.err = "" THEN NoException ELSE Exception(r.err),
             message |-> IF r.err = "" THEN <<>>
                         ELSE ErrorMessage(Exception(r.err)),
             overflow |-> r.err = "Overflow" \/ Overflow(r.st)] :
            r \in {Dispatch(st, command, params, ord, live)}})

\* the handler when the first call a command makes on the backing store
\* (navigator.storage.getDirectory(), or estimate() for opfs.estimate)
\* rejects with e: isAvailable catches it itself, every other command's
\* failure reaches the catch block; nothing has been changed
HandlerRejected(st, command, params, e) ==
  IF command \notin Commands THEN Handler(st, command, params, <<>>, TRUE)
  ELSE IF command = "opfs.isAvailable"
       THEN [st |-> st, resp |-> OkResponse([available |-> FALSE]),
             raised |-> NoException, message |-> <<>>, overflow |-> FALSE]
  ELSE [st |-> st, resp |-> ErrorResponse(ErrorCode(e.name)),
        raised |-> e, message |-> ErrorMessage(e), overflow |-> FALSE]

(* -------------------------------- inputs ------------------------------- *)
\* "/a/b" for the segment sequence <<a, b>>; "/" for the root
Canon(segs) == <<SLASH>> \o JoinSlash(segs)

\* the longest path given to a command has MaxSegments segments; the paths
\* given to copy and move are one segment shorter
MaxSegments == 3
SegSeqs(max) == UNION {[1..n -> Names] : n \in 0..max}
CanonPaths == {Canon(p) : p \in SegSeqs(MaxSegments)}
CopyPaths == {Canon(p) : p \in SegSeqs(MaxSegments - 1)}
\* the directories listed: the deepest has entries at MaxSegments
ListPaths == CopyPaths

\* path strings the panel never builds but the executor accepts
OddPaths == {<<>>, <<"b">>, <<SLASH, "a", SLASH>>, <<SLASH, SLASH, "a", SLASH, SLASH, "b">>}

PathInputs == CanonPaths \cup OddPaths

\* the text and the bytes written while the tree is explored: "a"
TreeTexts == {<<97>>}
TreeBytes == {<<97>>}

\* the paths and contents of the content round trips:
\* "", "a", "é", a byte order mark, an unpaired surrogate, U+1F600
IOPaths == {<<SLASH>>, <<SLASH, "a">>, <<SLASH, "a", SLASH, "b">>}
TextInputs == {<<>>, <<97>>, <<233>>, <<65279>>, <<55296>>, <<55357, 56832>>}
BytesInputs == {<<>>, <<0>>, <<255>>, <<128, 127>>, <<0, 1, 2>>, <<0, 1, 2, 255>>}
\* a string that is not base64
NotBase64 == <<16>>

ToBase64(bytes) == btoa(BytesToBinary(bytes))

MaxBytesInputs == {None, Some(0), Some(1), Some(2), Some(3)}
DepthInputs == {None, Some(0), Some(1), Some(2), Some(3)}
FilterInputs == {None, Some(TRUE), Some(FALSE)}
BoolInputs == {None, Some(TRUE), Some(FALSE)}
OverwriteInputs == {None, Some(TRUE)}
AnyOrder == <<"a", "b">>

\* the failures the backing store may raise on any call: the five names of
\* the catch block's table and two it does not list
FailureNames ==
  {"NotFoundError", "NotAllowedError", "InvalidModificationError",
   "NoModificationAllowedError", "TypeMismatchError", "QuotaExceededError",
   "SecurityError"}
Failures == {[name |-> n, message |-> <<"refused">>] : n \in FailureNames}

(* -------------------------------- actions ------------------------------ *)
\* last is the command the handler has just answered ("none" between
\* commands), prev the store it started from
Idle ==
  [cmd |-> "none", params |-> NoParams, resp |-> OkResponse(Null),
   raised |-> NoException, message |-> <<>>]

\* no command is being answered
Ready == last.cmd = "none"

\* one command executed by the page's handler
Do(command, params, ord, live) ==
  \E r \in {Handler(store, command, params, ord, live)} :
     /\ ~r.overflow
     /\ store' = r.st
     /\ prev' = store
     /\ last' = [cmd |-> command, params |-> params, resp |-> r.resp,
                  raised |-> r.raised, message |-> r.message]
     /\ UNCHANGED <<rpc, util, ui>>

\* the bridge before the panel has started
InitRpc ==
  /\ panel = [started |-> FALSE, inspectedTabId |-> None, runtime |-> TRUE]
  /\ calls = <<>>
  /\ channel = [requests |-> {}, replies |-> <<>>]
  /\ relay = [running |-> <<>>, sent |-> <<>>]
  /\ page = [tag |-> None, handler |-> None, defined |-> 0]

\* no path utility has been called
NoCall == [fn |-> "none", args |-> <<>>, result |-> <<>>]

\* no copy is running
NotCopying ==
  [state |-> "idle", cmd |-> "none", from |-> <<>>, to |-> <<>>,
   stack |-> <<>>, ord |-> <<>>, live |-> TRUE, err |-> "", folded |-> FALSE]

\* the panel before anything was recorded and before an image is open
InitUi ==
  /\ copying = NotCopying
  /\ recents = <<>>
  /\ favorites = <<>>
  /\ history = <<>>
  /\ historyIndex = -1
  /\ pending = {}

Init ==
  /\ store = EmptyStore
  /\ prev = EmptyStore
  /\ last = Idle
  /\ InitRpc
  /\ util = NoCall
  /\ InitUi

\* the response has been handed back; the next command may start
Settle ==
  /\ last.cmd # "none"
  /\ last' = Idle
  /\ prev' = store
  /\ UNCHANGED <<store, rpc, util, ui>>

IsAvailable == Ready /\ Do("opfs.isAvailable", NoParams, AnyOrder, TRUE)

Estimate == Ready /\ Do("opfs.estimate", NoParams, AnyOrder, TRUE)

FsList ==
  Ready /\ \E p \in ListPaths \cup OddPaths, d \in DepthInputs,
     f \in FilterInputs, g \in FilterInputs, ord \in Orders :
    Do("fs.list", [NoParams EXCEPT !.path = Some(p), !.depth = d,
                                   !.includeFiles = f, !.includeDirs = g],
       ord, TRUE)

FsStat ==
  Ready /\ \E p \in PathInputs :
    Do("fs.stat", [NoParams EXCEPT !.path = Some(p)], AnyOrder, TRUE)

ReadTextOf(paths) ==
  Ready /\ \E p \in paths, m \in MaxBytesInputs :
    Do("fs.readText", [NoParams EXCEPT !.path = Some(p), !.maxBytes = m],
       AnyOrder, TRUE)

WriteTextOf(paths, texts) ==
  Ready /\ \E p \in paths, t \in texts :
    Do("fs.writeText", [NoParams EXCEPT !.path = Some(p), !.text = Some(t)],
       AnyOrder, TRUE)

ReadBase64Of(paths) ==
  Ready /\ \E p \in paths, m \in MaxBytesInputs :
    Do("fs.readBase64", [NoParams EXCEPT !.path = Some(p), !.maxBytes = m],
       AnyOrder, TRUE)

WriteBase64Of(paths, strings) ==
  Ready /\ \E p \in paths, b \in strings :
    Do("fs.writeBase64", [NoParams EXCEPT !.path = Some(p), !.base64 = Some(b)],
       AnyOrder, TRUE)

MkdirOf(paths) ==
  Ready /\ \E p \in paths :
    Do("fs.mkdir", [NoParams EXCEPT !.path = Some(p)], AnyOrder, TRUE)

CreateFileOf(paths) ==
  Ready /\ \E p \in paths :
    Do("fs.createFile", [NoParams EXCEPT !.path = Some(p)], AnyOrder, TRUE)

FsReadText == ReadTextOf(PathInputs)
FsWriteText == WriteTextOf(PathInputs, TreeTexts)
FsReadBase64 == ReadBase64Of(PathInputs)
FsWriteBase64 == WriteBase64Of(PathInputs, {ToBase64(b) : b \in TreeBytes})
FsMkdir == MkdirOf(PathInputs)
FsCreateFile == CreateFileOf(PathInputs)

FsDelete ==
  Ready /\ \E p \in PathInputs, r \in BoolInputs :
    Do("fs.delete", [NoParams EXCEPT !.path = Some(p), !.recursive = r],
       AnyOrder, TRUE)

FsCopy ==
  Ready /\ \E f \in CopyPaths, t \in CopyPaths, o \in OverwriteInputs,
     ord \in Orders, live \in BOOLEAN :
    Do("fs.copy", [NoParams EXCEPT !.from = Some(f), !.to = Some(t),
                                   !.overwrite = o], ord, live)

FsMove ==
  Ready /\ \E f \in CopyPaths, t \in CopyPaths, o \in OverwriteInputs,
     ord \in Orders, live \in BOOLEAN :
    Do("fs.move", [NoParams EXCEPT !.from = Some(f), !.to = Some(t),
                                   !.overwrite = o], ord, live)

\* names outside the vocabulary: a command the panel might expect, the empty
\* name, a known name in another case and a known name without its prefix
UnknownNames == {"fs.rename", "", "FS.DELETE", "mkdir"}

UnknownCommand ==
  Ready /\ \E c \in UnknownNames, p \in {None, Some(<<SLASH, "a">>)} :
    Do(c, [NoParams EXCEPT !.path = p, !.recursive = Some(TRUE)], AnyOrder, TRUE)

\* a command whose params lack the fields it reads, or all but the first
MissingFields ==
  Ready /\ \E c \in Commands, p \in {None, Some(<<SLASH, "a">>)} :
    Do(c, [NoParams EXCEPT !.path = p, !.from = p], AnyOrder, TRUE)

\* a command whose first call on the backing store is rejected
StoreRejects ==
  Ready /\ \E c \in Commands, e \in Failures :
    \E r \in {HandlerRejected(store, c, NoParams, e)} :
       /\ store' = r.st
       /\ prev' = store
       /\ last' = [cmd |-> c, params |-> NoParams, resp |-> r.resp,
                    raised |-> r.raised, message |-> r.message]
       /\ UNCHANGED <<rpc, util, ui>>

Next ==
  \/ IsAvailable
  \/ Estimate
  \/ FsList
  \/ FsStat
  \/ FsReadText
  \/ FsWriteText
  \/ FsReadBase64
  \/ FsWriteBase64
  \/ FsMkdir
  \/ FsCreateFile
  \/ FsDelete
  \/ FsCopy
  \/ FsMove
  \/ UnknownCommand
  \/ MissingFields
  \/ StoreRejects
  \/ Settle

\* every command, over a store whose files hold "" or "a"
Spec == Init /\ [][Next]_vars

\* the content commands, over every text and byte sequence of the inputs
IoReadText == ReadTextOf(IOPaths)
IoWriteText == WriteTextOf(IOPaths, TextInputs)
IoReadBase64 == ReadBase64Of(IOPaths)
IoWriteBase64 ==
  WriteBase64Of(IOPaths, {ToBase64(b) : b \in BytesInputs} \cup {NotBase64})
IoMkdir == MkdirOf(IOPaths)
IoCreateFile == CreateFileOf(IOPaths)

NextIO ==
  \/ IoReadText
  \/ IoWriteText
  \/ IoReadBase64
  \/ IoWriteBase64
  \/ IoMkdir
  \/ IoCreateFile
  \/ Settle

SpecIO == Init /\ [][NextIO]_vars

(* ------------------------------ the bridge ----------------------------- *)
\* the dispatcher makes at most MaxCalls calls
MaxCalls == 2

\* const handlerVersion = '2026-01-28-1'
HandlerVersion == "2026-01-28-1"
\* the tag an earlier build of the extension left in a page
StaleVersion == "2025-01-01-1"

\* chrome.devtools.inspectedWindow.tabId of the inspected tab
TabId == 7

\* what createRequestId() may return: Date.now() and Math.random() give no
\* two calls different ids for certain
RequestIds == {"1-abc", "1-xyz"}

\* the calls the panel makes in this model: [command, params]
RpcCalls ==
  {[command |-> "fs.mkdir", params |-> [NoParams EXCEPT !.path = Some(<<SLASH, "a">>)]],
   [command |-> "fs.stat", params |-> [NoParams EXCEPT !.path = Some(<<SLASH, "a">>)]],
   [command |-> "fs.rename", params |-> NoParams],
   \* a copy of the root into itself, which never ends
   [command |-> "fs.copy", params |-> [NoParams EXCEPT !.from = Some(<<SLASH>>),
                                                       !.to = Some(<<SLASH, "a">>)]]}

\* an RPCResponse: {ok: true, data} or {ok: false, error: {code, message}}
RpcResponse(resp, message) ==
  [ok |-> resp.ok, code |-> resp.code, data |-> resp.data, message |-> message]

(* the page: window.__OPFS_HANDLER_VERSION__ and window.__OPFS_HANDLER__; *)
(* defined counts the assignments to window.__OPFS_HANDLER__ in the page's *)
(* global scope                                                            *)
\* an injected function that defines the handler on every invocation
InjectedFuncAlways(pg, st, cmd, p) ==
  [page |-> [tag |-> Some(HandlerVersion), handler |-> Some(HandlerVersion),
             defined |-> pg.defined + 1],
   invoked |-> Some(HandlerVersion),
   r |-> Handler(st, cmd, p, AnyOrder, TRUE)]

\* an injected function that stamps the tag and leaves the handler to a
\* later step
InjectedFuncStampFirst(pg, st, cmd, p) ==
  [page |-> IF pg.tag # Some(HandlerVersion)
            THEN [pg EXCEPT !.tag = Some(HandlerVersion)]
            ELSE pg,
   invoked |-> pg.handler,
   r |-> Handler(st, cmd, p, AnyOrder, TRUE)]

\* the injected function: defines the handler and stamps the tag unless
\* the tag is the expected one, then invokes the handler; nothing is
\* awaited before the invocation, so these statements run as one step;
\* invoked is the value of window.__OPFS_HANDLER__ that is called
InjectedFunc(pg, st, cmd, p) ==
  [page |-> IF pg.tag # Some(HandlerVersion)
            THEN [tag |-> Some(HandlerVersion), handler |-> Some(HandlerVersion),
                  defined |-> pg.defined + 1]
            ELSE pg,
   invoked |-> IF pg.tag # Some(HandlerVersion) THEN Some(HandlerVersion)
               ELSE pg.handler,
   r |-> Handler(st, cmd, p, AnyOrder, TRUE)]

(* the relay: executeOPFSCommand and the onMessage listener *)
\* what chrome.scripting.executeScript settles with: a rejection, or a
\* results value (kind "null" when there is no list)
Pending == [kind |-> "pending", results |-> <<>>, error |-> <<>>]
Rejection(message) == [kind |-> "rejected", results |-> <<>>, error |-> message]
NoResults == [kind |-> "null", results |-> <<>>, error |-> <<>>]
Results(items) == [kind |-> "results", results |-> items, error |-> <<>>]

NoResultResponse ==
  [ok |-> FALSE, code |-> "NO_RESULT", data |-> Null,
   message |-> <<"No result from script execution">>]

\* the tail of executeOPFSCommand: the value its promise resolves with,
\* None for undefined
NormalizeResults(outcome) ==
  IF outcome.kind = "null" \/ Len(outcome.results) = 0
  THEN Some(NoResultResponse)
  ELSE outcome.results[1].result

\* a relay that answers with the id of no request
RelayResponseNoId(x) ==
  [type |-> "OPFS_RPC_RESPONSE",
   requestId |-> "",
   response |->
     IF x.outcome.kind = "rejected"
     THEN Some([ok |-> FALSE, code |-> "EXECUTION_ERROR", data |-> Null,
                message |-> x.outcome.error])
     ELSE NormalizeResults(x.outcome)]

\* the message the listener hands to sendResponse, from .then or .catch
RelayResponse(x) ==
  [type |-> "OPFS_RPC_RESPONSE",
   requestId |-> x.requestId,
   response |->
     IF x.outcome.kind = "rejected"
     THEN Some([ok |-> FALSE, code |-> "EXECUTION_ERROR", data |-> Null,
                message |-> x.outcome.error])
     ELSE NormalizeResults(x.outcome)]

(* the dispatcher: sendRPCRequest *)
\* a dispatcher that checks the inspected tab only
FailFastTabOnly(pn) ==
  IF pn.inspectedTabId = None THEN Some(<<"Inspected tab ID not set">>)
  ELSE None

\* the checks before a request is made: the error thrown, None when the
\* call goes on
FailFast(pn) ==
  IF pn.inspectedTabId = None THEN Some(<<"Inspected tab ID not set">>)
  ELSE IF ~pn.runtime THEN Some(<<"Chrome runtime API not available">>)
  ELSE None

\* how a call settles; code is None when the error carries no code
Unsettled == [kind |-> "none", data |-> Null, code |-> None, message |-> <<>>]
Resolved(data) == [kind |-> "resolved", data |-> data, code |-> None, message |-> <<>>]
Rejected(code, message) ==
  [kind |-> "rejected", data |-> Null, code |-> code, message |-> message]

\* a callback that, when the port has closed, puts the call back to be
\* sent again
ResponseCallbackRetry(reply) ==
  IF reply.lastError # None
  THEN [state |-> "CREATED", settled |-> Unsettled]
  ELSE IF reply.response = None
  THEN [state |-> "REJECTED", settled |-> Rejected(None, <<"No response received">>)]
  ELSE LET rpcResponse == reply.response[1].response
       IN IF rpcResponse = None THEN [state |-> "SENT", settled |-> Unsettled]
          ELSE IF ~rpcResponse[1].ok
          THEN [state |-> "REJECTED",
                settled |-> Rejected(Some(rpcResponse[1].code), rpcResponse[1].message)]
          ELSE [state |-> "RESOLVED", settled |-> Resolved(rpcResponse[1].data)]

\* the callback of chrome.runtime.sendMessage: the call's state and
\* settlement; with a message that carries no response the callback throws
\* on rpcResponse.ok and the promise stays pending
ResponseCallback(reply) ==
  IF reply.lastError # None
  THEN [state |-> "REJECTED", settled |-> Rejected(None, reply.lastError[1])]
  ELSE IF reply.response = None
  THEN [state |-> "REJECTED", settled |-> Rejected(None, <<"No response received">>)]
  ELSE LET rpcResponse == reply.response[1].response
       IN IF rpcResponse = None THEN [state |-> "SENT", settled |-> Unsettled]
          ELSE IF ~rpcResponse[1].ok
          THEN [state |-> "REJECTED",
                settled |-> Rejected(Some(rpcResponse[1].code), rpcResponse[1].message)]
          ELSE [state |-> "RESOLVED", settled |-> Resolved(rpcResponse[1].data)]

(* the actions of the bridge; the executor's prev and last stay as they are *)
Call(i) == calls[i]
Ports == 1..Len(calls)

\* the panel runs one piece of code at a time: between createRequestId()
\* and sendMessage() no other code of the panel runs
PanelIdle == \A i \in Ports : Call(i).state # "CREATED"

\* main.tsx: setInspectedTabId only when the devtools API gives a tab id
PanelStart ==
  /\ ~panel.started
  /\ \E id \in {None, Some(TabId)} :
       panel' = [panel EXCEPT !.started = TRUE, !.inspectedTabId = id]
  /\ UNCHANGED <<util, ui, store, prev, last, calls, channel, relay, page>>

\* the extension is reloaded: chrome.runtime.sendMessage is gone
RuntimeInvalidated ==
  /\ panel.started /\ panel.runtime /\ PanelIdle
  /\ panel' = [panel EXCEPT !.runtime = FALSE]
  /\ UNCHANGED <<util, ui, store, prev, last, calls, channel, relay, page>>

\* sendRPCRequest, lines 35-41: the call throws before a request exists
CallFailsFast ==
  /\ panel.started /\ PanelIdle /\ Len(calls) < MaxCalls
  /\ FailFast(panel) # None
  /\ \E c \in RpcCalls :
       calls' = Append(calls,
                  [command |-> c.command, params |-> c.params,
                   state |-> "REJECTED", requestId |-> None, sends |-> 0,
                   settled |-> Rejected(None, FailFast(panel)[1])])
  /\ UNCHANGED <<util, ui, store, prev, last, panel, channel, relay, page>>

\* sendRPCRequest, line 43: the checks passed and the request id is made
CreateRequest ==
  /\ panel.started /\ PanelIdle /\ Len(calls) < MaxCalls
  /\ FailFast(panel) = None
  /\ \E c \in RpcCalls, id \in RequestIds :
       calls' = Append(calls,
                  [command |-> c.command, params |-> c.params,
                   state |-> "CREATED", requestId |-> Some(id), sends |-> 0,
                   settled |-> Unsettled])
  /\ UNCHANGED <<util, ui, store, prev, last, panel, channel, relay, page>>

\* sendRPCRequest, lines 45-53: chrome.runtime.sendMessage
SendMessage ==
  \E i \in Ports :
    /\ Call(i).state = "CREATED"
    /\ calls' = [calls EXCEPT ![i].state = "SENT", ![i].sends = @ + 1]
    /\ channel' = [channel EXCEPT !.requests = @ \cup
         {[port |-> i,
           msg |-> [type |-> "OPFS_RPC_REQUEST",
                    tabId |-> panel.inspectedTabId[1],
                    command |-> Call(i).command, params |-> Call(i).params,
                    requestId |-> Call(i).requestId[1]]]}]
    /\ UNCHANGED <<util, ui, store, prev, last, panel, relay, page>>

\* another part of the extension sends a message that is no RPC request
ForeignMessage ==
  /\ \A m \in channel.requests : m.port # 0
  /\ channel' = [channel EXCEPT !.requests = @ \cup
       {[port |-> 0,
         msg |-> [type |-> "OTHER", tabId |-> 0, command |-> "",
                  params |-> NoParams, requestId |-> ""]]}]
  /\ UNCHANGED <<util, ui, store, prev, last, panel, calls, relay, page>>

\* the listener, lines 11-13: not a request, return false
RelayIgnores ==
  \E m \in channel.requests :
    /\ m.msg.type # "OPFS_RPC_REQUEST"
    /\ channel' = [channel EXCEPT !.requests = @ \ {m}]
    /\ UNCHANGED <<util, ui, store, prev, last, panel, calls, relay, page>>

\* the listener, lines 15-17 and 39: executeOPFSCommand is started and the
\* channel is kept open
RelayReceives ==
  \E m \in channel.requests :
    /\ m.msg.type = "OPFS_RPC_REQUEST"
    /\ channel' = [channel EXCEPT !.requests = @ \ {m}]
    /\ relay' = [relay EXCEPT !.running = (m.port :>
           [requestId |-> m.msg.requestId,
            tabId |-> m.msg.tabId, command |-> m.msg.command,
            params |-> m.msg.params, stage |-> "executing",
            outcome |-> Pending]) @@ @]
    /\ UNCHANGED <<util, ui, store, prev, last, panel, calls, page>>

\* relay.running and channel.replies map a port (the call's number) to the
\* request in progress and to the reply in flight
Without(f, k) == [p \in DOMAIN f \ {k} |-> f[p]]
Running(p) == relay.running[p]
Settled(p, outcome) ==
  [relay EXCEPT !.running[p].stage = "settled", !.running[p].outcome = outcome]
\* relay.sent: the messages handed to sendResponse, by port
SentOn(p) == IF p \in DOMAIN relay.sent THEN relay.sent[p] ELSE <<>>
Executing == {p \in DOMAIN relay.running : Running(p).stage = "executing"}

\* chrome.scripting.executeScript rejects: the page cannot be reached
ScriptRejects ==
  \E p \in Executing :
    /\ relay' = Settled(p, Rejection(<<"Cannot access contents of the page">>))
    /\ UNCHANGED <<util, ui, store, prev, last, panel, calls, channel, page>>

\* executeScript resolves without a results list or with an empty one
ScriptYieldsNothing ==
  \E p \in Executing, o \in {NoResults, Results(<<>>)} :
    /\ relay' = Settled(p, o)
    /\ UNCHANGED <<util, ui, store, prev, last, panel, calls, channel, page>>

\* the injected function runs in the page and executeScript resolves with
\* one InjectionResult, which holds the handler's response unless the
\* result was lost on the way back; a command that never ends never settles
ScriptReturns ==
  \E p \in Executing, lost \in BOOLEAN :
    \E f \in {InjectedFunc(page, store, Running(p).command, Running(p).params)} :
      /\ ~f.r.overflow
      /\ store' = f.r.st
      /\ page' = f.page
      /\ relay' = Settled(p, Results(<<[result |->
                     IF lost THEN None
                     ELSE Some(RpcResponse(f.r.resp, f.r.message))]>>))
      /\ UNCHANGED <<util, ui, prev, last, panel, calls, channel>>

\* the listener's .then or .catch: sendResponse
RelayResponds ==
  \E p \in DOMAIN relay.running :
    /\ Running(p).stage = "settled"
    /\ relay' = [running |-> Without(relay.running, p),
                 sent |-> (p :> Append(SentOn(p), RelayResponse(Running(p))))
                            @@ relay.sent]
    /\ channel' = [channel EXCEPT !.replies = (p :>
         [lastError |-> None, response |-> Some(RelayResponse(Running(p)))]) @@ @]
    /\ UNCHANGED <<util, ui, store, prev, last, panel, calls, page>>

\* the relay's worker stops before executeScript settles, or nothing
\* listens: the port closes and the callback gets chrome.runtime.lastError
PortCloses ==
  \E i \in Ports :
    /\ Call(i).state = "SENT"
    /\ \/ \E m \in channel.requests : m.port = i
       \/ i \in Executing
    /\ channel' = [requests |-> {m \in channel.requests : m.port # i},
                   replies |-> (i :>
                     [lastError |-> Some(<<"The message port closed before a response was received.">>),
                      response |-> None]) @@ channel.replies]
    /\ relay' = [relay EXCEPT !.running = Without(@, i)]
    /\ UNCHANGED <<util, ui, store, prev, last, panel, calls, page>>

\* a panel that hands a response to a waiting call with the response's
\* request id, whichever port it came on
PanelCallbackById ==
  \E p \in DOMAIN channel.replies, i \in Ports :
    /\ PanelIdle
    /\ Call(i).state = "SENT"
    /\ IF channel.replies[p].response = None THEN i = p
       ELSE Call(i).requestId = Some(channel.replies[p].response[1].requestId)
    /\ channel' = [channel EXCEPT !.replies = Without(@, p)]
    /\ \E c \in {ResponseCallback(channel.replies[p])} :
         calls' = [calls EXCEPT ![i].state = c.state, ![i].settled = c.settled]
    /\ UNCHANGED <<util, ui, store, prev, last, panel, relay, page>>

\* the callback of sendMessage runs in the panel
PanelCallback ==
  \E i \in DOMAIN channel.replies :
    /\ PanelIdle
    /\ channel' = [channel EXCEPT !.replies = Without(@, i)]
    /\ \E c \in {ResponseCallback(channel.replies[i])} :
         calls' = [calls EXCEPT ![i].state = c.state, ![i].settled = c.settled]
    /\ UNCHANGED <<util, ui, store, prev, last, panel, relay, page>>

\* the page was instrumented by an earlier build of the extension
StalePage ==
  /\ ~panel.started /\ page.tag = None
  /\ page' = [tag |-> Some(StaleVersion), handler |-> Some(StaleVersion),
              defined |-> 1]
  /\ UNCHANGED <<util, ui, store, prev, last, panel, calls, channel, relay>>

\* the page navigates: its global scope is new, its storage is kept
Navigate ==
  /\ page.tag # None /\ panel.started
  /\ page' = [tag |-> None, handler |-> None, defined |-> 0]
  /\ UNCHANGED <<util, ui, store, prev, last, panel, calls, channel, relay>>

NextRpc ==
  \/ PanelStart
  \/ RuntimeInvalidated
  \/ CallFailsFast
  \/ CreateRequest
  \/ SendMessage
  \/ ForeignMessage
  \/ RelayIgnores
  \/ RelayReceives
  \/ ScriptRejects
  \/ ScriptYieldsNothing
  \/ ScriptReturns
  \/ RelayResponds
  \/ PortCloses
  \/ PanelCallback
  \/ StalePage
  \/ Navigate

\* the panel, the relay and the page, the panel making MaxCalls calls
SpecRpc == Init /\ [][NextRpc]_vars

\* the relay's promise callbacks run once executeScript has settled
SpecRpcFair == SpecRpc /\ WF_vars(RelayResponds)

(* ------------------------- vocabulary of the claims -------------------- *)
\* the command just answered, its outcome and its parameters
Answered(command) == last.cmd = command
Succeeded(command) == last.cmd = command /\ last.resp.ok
\* the command was called with its path and the backing store refused no
\* call: the answer is the executor's own
Ran(command) ==
  /\ last.cmd = command
  /\ last.params.path # None
  /\ last.raised \notin Failures
Param(field) == last.params[field][1]

\* the response of a command run on store st
Response(st, command, params) == Handler(st, command, params, AnyOrder, TRUE).resp
StatOf(st, path) == Response(st, "fs.stat", [NoParams EXCEPT !.path = Some(path)])

\* the entry of st1 at p \o rel, for every rel, is also in st2 at q \o rel,
\* with the same kind and content
Rel(p, x) == SubSeq(x, Len(p) + 1, Len(x))
HoldsCopyOf(st2, q, st1, p) ==
  \A x \in Subtree(st1, p) :
    Exists(st2, q \o Rel(p, x)) /\ st2[q \o Rel(p, x)] = st1[x]

\* the subtree of st2 at q and the subtree of st1 at p are the same tree
SameTree(st2, q, st1, p) ==
  /\ HoldsCopyOf(st2, q, st1, p)
  /\ HoldsCopyOf(st1, p, st2, q)

\* every entry at or under p is in st2 what it was in st1
Untouched(st2, st1, p) ==
  /\ Subtree(st2, p) = Subtree(st1, p)
  /\ \A x \in Subtree(st1, p) : st2[x] = st1[x]

(* --------------------------------- C1 ---------------------------------- *)
\* C1 (as stated): whenever fs.move(a, b) returns ok, afterwards fs.stat(a)
\* fails with NOT_FOUND, fs.stat(b) succeeds and b holds what a held before
\* the move.
C1_MoveRelocates ==
  Succeeded("fs.move") =>
    /\ StatOf(store, Param("from")) = ErrorResponse("NOT_FOUND")
    /\ StatOf(store, Param("to")).ok
    /\ HoldsCopyOf(store, Parts(Param("to")), prev, Parts(Param("from")))

(* --------------------------------- C2 ---------------------------------- *)
\* C2 (as stated): after a successful fs.copy(from, to) of a directory, the
\* directory at to has the same set of child names as from, and every
\* descendant of from (files with their content, subdirectories, the empty
\* ones too) is at the corresponding path under to.
C2_CopySameChildren ==
  (Succeeded("fs.copy") /\ IsDir(prev, Parts(Param("from")))) =>
    /\ KidNames(store, Parts(Param("to"))) = KidNames(prev, Parts(Param("from")))
    /\ HoldsCopyOf(store, Parts(Param("to")), prev, Parts(Param("from")))

\* C2 (amended): after a successful fs.copy(from, to) of a directory to a
\* path where nothing existed before, the tree at to is the tree that was at
\* from: the same child names and, recursively, the same files with the same
\* bytes and the same subdirectories, the empty ones included.
C2_CopyToFreshPath ==
  (/\ Succeeded("fs.copy")
   /\ IsDir(prev, Parts(Param("from")))
   /\ ~Exists(prev, Parts(Param("to")))) =>
    /\ IsDir(store, Parts(Param("to")))
    /\ KidNames(store, Parts(Param("to"))) = KidNames(prev, Parts(Param("from")))
    /\ SameTree(store, Parts(Param("to")), prev, Parts(Param("from")))

\* a directory holding an empty subdirectory has been copied to a fresh path
C2_Witness ==
  /\ Succeeded("fs.copy")
  /\ IsDir(prev, Parts(Param("from")))
  /\ ~Exists(prev, Parts(Param("to")))
  /\ \E d \in Kids(prev, Parts(Param("from"))) :
       IsDir(prev, d) /\ Kids(prev, d) = {}

(* --------------------------------- C3 ---------------------------------- *)
\* C3 (as stated): a successful fs.copy(from, to) leaves the source
\* untouched (every entry at or under from keeps its kind, children and
\* content) and to holds the content of the source.
C3_CopyLeavesSource ==
  Succeeded("fs.copy") =>
    /\ Untouched(store, prev, Parts(Param("from")))
    /\ HoldsCopyOf(store, Parts(Param("to")), prev, Parts(Param("from")))

(* --------------------------------- C4 ---------------------------------- *)
ReadTextOfPath(st, path) ==
  Response(st, "fs.readText", [NoParams EXCEPT !.path = Some(path)])

\* C4 (as stated): fs.writeText(p, s) followed by fs.readText(p) with no
\* maxBytes returns {text: s, truncated: false}, for every text s, whatever
\* the file held before and whether or not the parents of p existed.
C4_TextRoundTrip ==
  Succeeded("fs.writeText") =>
    ReadTextOfPath(store, Param("path"))
      = OkResponse([text |-> Param("text"), truncated |-> FALSE])

\* a text without unpaired surrogate is its own USVString
WellFormed(text) == ToCodeUnits(ToScalarValues(text)) = text
StartsWithBOM(text) == Len(text) >= 1 /\ text[1] = 65279

\* C4 (amended): the round trip returns {text: s, truncated: false} for
\* every well-formed text s (no unpaired surrogate) that does not start with
\* U+FEFF, whatever the file held before and whether or not the parents of p
\* existed.
C4_WellFormedTextRoundTrip ==
  (/\ Succeeded("fs.writeText")
   /\ WellFormed(Param("text"))
   /\ ~StartsWithBOM(Param("text"))) =>
    /\ ReadTextOfPath(store, Param("path"))
         = OkResponse([text |-> Param("text"), truncated |-> FALSE])
    /\ store[Parts(Param("path"))] = FileNode(Utf8Encode(Param("text")))

\* a text has replaced a longer content
C4_Witness ==
  /\ Succeeded("fs.writeText")
  /\ WellFormed(Param("text"))
  /\ ~StartsWithBOM(Param("text"))
  /\ Param("text") # <<>>
  /\ IsFile(prev, Parts(Param("path")))
  /\ Len(prev[Parts(Param("path"))].content) > Len(Utf8Encode(Param("text")))

(* --------------------------------- C5 ---------------------------------- *)
\* the cap of the claim: the maxBytes supplied, else the default
ClaimedCap(dflt) ==
  IF last.params.maxBytes = None THEN dflt ELSE last.params.maxBytes[1]

FileRead == store[Parts(Param("path"))].content

\* C5 (as stated): fs.readText returns truncated = true iff the file's size
\* exceeds the cap (the maxBytes supplied, any non-negative value, or 2 MiB),
\* and a truncated text is exactly the first cap bytes of the file;
\* fs.readBase64 obeys the same rule with a 10 MiB default.
C5_TruncatedIffOverCap ==
  /\ Succeeded("fs.readText") =>
       /\ last.resp.data.truncated = (Len(FileRead) > ClaimedCap(DefaultTextMaxBytes))
       /\ last.resp.data.truncated =>
            last.resp.data.text
              = BlobText(BlobSlice(FileRead, ClaimedCap(DefaultTextMaxBytes)))
  /\ Succeeded("fs.readBase64") =>
       /\ last.resp.data.truncated = (Len(FileRead) > ClaimedCap(DefaultBase64MaxBytes))
       /\ last.resp.data.truncated =>
            last.resp.data.base64
              = ToBase64(BlobSlice(FileRead, ClaimedCap(DefaultBase64MaxBytes)))

(* --------------------------------- C6 ---------------------------------- *)
ReadBase64OfPath(st, path) ==
  Response(st, "fs.readBase64", [NoParams EXCEPT !.path = Some(path)])

\* C6: for every byte sequence B, fs.writeBase64(p, base64(B)) followed by
\* fs.readBase64(p) returns the same base64 string with truncated = false,
\* the file holds B, decoding the string yields B, and every byte value
\* 0..255 survives encoding and decoding.
C6_Base64RoundTrip ==
  Succeeded("fs.writeBase64") =>
    /\ \A B \in BytesInputs :
         Param("base64") = uint8ArrayToBase64(B) =>
           /\ ReadBase64OfPath(store, Param("path"))
                = OkResponse([base64 |-> Param("base64"), truncated |-> FALSE])
           /\ store[Parts(Param("path"))] = FileNode(B)
           /\ base64ToUint8Array(ReadBase64OfPath(store, Param("path")).data.base64) = B
    /\ \A b \in 0..255 : base64ToUint8Array(uint8ArrayToBase64(<<b>>)) = <<b>>

\* the bytes 0, 1, 2, 255 have been written
C6_Witness ==
  /\ Succeeded("fs.writeBase64")
  /\ Param("base64") = uint8ArrayToBase64(<<0, 1, 2, 255>>)
  /\ store[Parts(Param("path"))].content = <<0, 1, 2, 255>>

(* --------------------------------- C7 ---------------------------------- *)
\* the same command, run once more on the store it left
Again == Handler(store, last.cmd, last.params, AnyOrder, TRUE)

\* the proper prefixes of a segment sequence
Ancestors(p) == {SubSeq(p, 1, n) : n \in 0..(Len(p) - 1)}

C8_CreateFileIdempotent ==
  Ran("fs.createFile") =>
    /\ IsFile(prev, Parts(Param("path"))) => (last.resp.ok /\ store = prev)
    /\ last.resp.ok =>
         /\ IsFile(store, Parts(Param("path")))
         /\ \A d \in Ancestors(Parts(Param("path"))) : IsDir(store, d)
         /\ DOMAIN store = DOMAIN prev \cup {Parts(Param("path"))}
                             \cup Ancestors(Parts(Param("path")))
         /\ \A x \in DOMAIN prev : store[x] = prev[x]
         /\ ~Exists(prev, Parts(Param("path"))) =>
              store[Parts(Param("path"))].content = <<>>
         /\ Again.resp.ok
         /\ Again.st = store

\* createFile has run on a file that already held bytes
C8_Witness ==
  /\ Succeeded("fs.createFile")
  /\ IsFile(prev, Parts(Param("path")))
  /\ prev[Parts(Param("path"))].content # <<>>
  /\ store[Parts(Param("path"))].content = prev[Parts(Param("path"))].content

(* --------------------------------- C9 ---------------------------------- *)
\* C9: a successful fs.delete(path, recursive) removes exactly the entry at
\* path (with its whole subtree, which is more than the entry itself only
\* when recursive is true) and leaves every other entry unchanged; on a
\* non-empty directory with recursive false or omitted the call returns an
\* error response and the store is unchanged.
C9_DeleteRemovesTarget ==
  Ran("fs.delete") =>
    /\ last.resp.ok =>
         /\ Exists(prev, Parts(Param("path")))
         /\ Parts(Param("path")) # RootPath
         /\ DOMAIN store = DOMAIN prev \ Subtree(prev, Parts(Param("path")))
         /\ \A x \in DOMAIN store : store[x] = prev[x]
         /\ ~Flag(last.params.recursive) =>
              Subtree(prev, Parts(Param("path"))) = {Parts(Param("path"))}
    /\ (/\ IsDir(prev, Parts(Param("path")))
        /\ Kids(prev, Parts(Param("path"))) # {}
        /\ ~Flag(last.params.recursive)) =>
         (~last.resp.ok /\ store = prev)

\* a non-empty directory has been removed recursively and a sibling is left
C9_Witness ==
  /\ Succeeded("fs.delete")
  /\ Flag(last.params.recursive)
  /\ Kids(prev, Parts(Param("path"))) # {}
  /\ Entries(store) >= 1

(* --------------------------------- C10 --------------------------------- *)
\* the depth the claim speaks of: 1 when omitted
ClaimedDepth == IF last.params.depth = None THEN 1 ELSE last.params.depth[1]

\* entries at nesting level k of a listing of depth d: a directory carries
\* children, the listing of that directory, iff k < d
RECURSIVE DepthShape(_, _, _)
DepthShape(entries, k, d) ==
  \A i \in 1..Len(entries) :
    LET e == entries[i]
    IN IF e.kind = "directory" /\ k < d
       THEN /\ e.children # None
            /\ \E ord \in Orders :
                 e.children[1]
                   = list(store, e.path, d - k,
                          last.params.includeFiles # Some(FALSE),
                          last.params.includeDirs # Some(FALSE), ord).val
            /\ DepthShape(e.children[1], k + 1, d)
       ELSE e.children = None

\* C10: in the result of fs.list(path, depth), with depth 1 or omitted no
\* directory entry carries children; with depth d >= 2 every directory entry
\* at nesting level k < d carries a children list (empty for an empty
\* directory) holding the listing of that directory, and no entry at level d
\* carries children.
C10_ListDepth ==
  (Succeeded("fs.list") /\ ClaimedDepth >= 1) =>
    DepthShape(last.resp.data, 1, ClaimedDepth)

\* a listing of depth 2: a directory at level 1 carries children, and a
\* directory inside them, at level 2, carries none
C10_Witness ==
  /\ Succeeded("fs.list")
  /\ last.params.depth = Some(2)
  /\ \E i \in 1..Len(last.resp.data) :
       /\ last.resp.data[i].children # None
       /\ \E j \in 1..Len(last.resp.data[i].children[1]) :
            LET e == last.resp.data[i].children[1][j]
            IN e.kind = "directory" /\ e.children = None
               /\ Kids(store, Parts(e.path)) # {}

(* --------------------------------- C11 --------------------------------- *)
\* the entry of a listing that describes the child c of the directory
\* listed: its name, its kind, a '/'-rooted path that denotes it and, for a
\* file, the byte length of its content
Describes(e, c) ==
  /\ e.name = c[Len(c)]
  /\ e.kind = store[c].kind
  /\ Len(e.path) >= 1 /\ e.path[1] = SLASH
  /\ Parts(e.path) = c
  /\ IsFile(store, c) => e.size = Some(Len(store[c].content))

\* C11 (as stated): fs.list(path) with default filters returns exactly one
\* entry for each current direct child of path and no other entry, each with
\* the child's name, its kind and its absolute path, and each file entry's
\* size is the byte length of the file's current content.
C11_ListMatchesChildren ==
  (/\ Succeeded("fs.list")
   /\ last.params.includeFiles = None
   /\ last.params.includeDirs = None) =>
    /\ Len(last.resp.data) = Cardinality(Kids(store, Parts(Param("path"))))
    /\ \A c \in Kids(store, Parts(Param("path"))) :
         \E i \in 1..Len(last.resp.data) : Describes(last.resp.data[i], c)

(* --------------------------------- C12 --------------------------------- *)
\* a kind is included unless the literal false was passed for it
Included(kind) ==
  IF kind = "file" THEN last.params.includeFiles # Some(FALSE)
  ELSE last.params.includeDirs # Some(FALSE)

IncludedKids(d) == {c \in Kids(store, d) : Included(store[c].kind)}

\* entries, the listing of directory d, holds one entry for each child of d
\* whose kind is included and no other, and so does every nested listing
RECURSIVE FilterShape(_, _)
FilterShape(entries, d) ==
  /\ Len(entries) = Cardinality(IncludedKids(d))
  /\ \A c \in IncludedKids(d) :
       \E i \in 1..Len(entries) :
         entries[i].name = c[Len(c)] /\ entries[i].kind = store[c].kind
  /\ \A i \in 1..Len(entries) :
       entries[i].children # None =>
         FilterShape(entries[i].children[1], Append(d, entries[i].name))

\* the entry of a listing with the given name, None when there is none
EntryNamed(entries, name) ==
  IF \E i \in 1..Len(entries) : entries[i].name = name
  THEN Some(entries[CHOOSE i \in 1..Len(entries) : entries[i].name = name])
  ELSE None

\* C12: at every nesting level of an fs.list result an entry appears iff its
\* kind is included (includeFiles for files, includeDirs for directories,
\* each true unless the literal false is passed); with includeFiles = false
\* and depth > 1 the directories and their nested directories are still
\* listed; with includeDirs = false no directory entry and nothing beneath
\* any directory appears.
C12_ListFilters ==
  Succeeded("fs.list") =>
    /\ FilterShape(last.resp.data, Parts(Param("path")))
    /\ (/\ last.params.includeFiles = Some(FALSE)
        /\ last.params.includeDirs # Some(FALSE)
        /\ ClaimedDepth > 1) =>
         \A c \in Kids(store, Parts(Param("path"))) :
           IsDir(store, c) =>
             /\ EntryNamed(last.resp.data, c[Len(c)]) # None
             /\ EntryNamed(last.resp.data, c[Len(c)])[1].children # None
             /\ \A c2 \in Kids(store, c) :
                  IsDir(store, c2) =>
                    EntryNamed(EntryNamed(last.resp.data, c[Len(c)])[1].children[1],
                               c2[Len(c2)]) # None
    /\ last.params.includeDirs = Some(FALSE) =>
         \A i \in 1..Len(last.resp.data) :
           /\ last.resp.data[i].kind = "file"
           /\ last.resp.data[i].children = None

\* with includeFiles = false and depth 2, a listing that leaves a file out
\* and holds a directory with its nested directory
C12_Witness ==
  /\ Succeeded("fs.list")
  /\ last.params.includeFiles = Some(FALSE)
  /\ last.params.includeDirs = Some(TRUE)
  /\ last.params.depth = Some(2)
  /\ \E c \in Kids(store, Parts(Param("path"))) : IsFile(store, c)
  /\ \E i \in 1..Len(last.resp.data) :
       /\ last.resp.data[i].children # None
       /\ Len(last.resp.data[i].children[1]) >= 1

(* --------------------------------- C13 --------------------------------- *)
\* C13 (as stated): fs.stat(path) returns kind 'directory' with size 0 for
\* every existing directory (the root included), kind 'file' with the
\* current size for every existing file, fails with NOT_FOUND when nothing
\* exists at path, and never creates anything.
C13_StatReports ==
  Ran("fs.stat") =>
    /\ store = prev
    /\ IsDir(store, Parts(Param("path"))) =>
         last.resp = OkResponse([kind |-> "directory", size |-> 0])
    /\ IsFile(store, Parts(Param("path"))) =>
         last.resp = OkResponse([kind |-> "file",
                                 size |-> Len(store[Parts(Param("path"))].content)])
    /\ ~Exists(store, Parts(Param("path"))) =>
         last.resp = ErrorResponse("NOT_FOUND")

(* --------------------------------- C14 --------------------------------- *)
\* C14: a command name outside the thirteen-command vocabulary makes the
\* executor return {ok: false, error: {code: "UNKNOWN_COMMAND"}} as an
\* ordinary result and leaves the store unchanged.
C14_UnknownCommand ==
  /\ Cardinality(Commands) = 13
  /\ (last.cmd \notin Commands \cup {"none"}) =>
       /\ last.resp = ErrorResponse("UNKNOWN_COMMAND")
       /\ store = prev

\* an unknown name has been answered while its params named an existing
\* entry
C14_Witness ==
  /\ last.cmd = "FS.DELETE"
  /\ last.params.path # None
  /\ Exists(store, Parts(Param("path")))
  /\ ~last.resp.ok

(* --------------------------------- C15 --------------------------------- *)
\* the closed set of error codes
Taxonomy ==
  {"NOT_FOUND", "NOT_ALLOWED", "TYPE_MISMATCH", "INVALID_MODIFICATION",
   "LOCKED", "UNKNOWN_COMMAND", "NO_RESULT", "EXECUTION_ERROR", "UNKNOWN_ERROR"}

\* C15: for every command, every params value (missing fields included) and
\* every failure the backing store raises, the handler's call ends with a
\* result and no exception escapes it: the result is {ok: true, data}, or
\* {ok: false, error: {code, message}} with code in the closed taxonomy.
C15_ExecutorAlwaysAnswers ==
  (last.cmd # "none") =>
    /\ last.raised # NoException => ~last.resp.ok
    /\ \/ /\ last.resp.ok
          /\ last.resp.code = ""
          /\ last.message = <<>>
       \/ /\ ~last.resp.ok
          /\ last.resp.code \in Taxonomy
          /\ last.resp.data = Null
          /\ last.message # <<>>

\* fs.writeText without its text has failed after creating the file, and
\* the failure, which the table does not list, was answered as a result
C15_Witness ==
  /\ last.cmd = "fs.writeText"
  /\ last.params.path # None
  /\ last.params.text = None
  /\ last.raised.name = "TypeError"
  /\ last.resp = ErrorResponse("UNKNOWN_ERROR")
  /\ store # prev

(* --------------------------------- C16 --------------------------------- *)
\* the table of the claim
ClaimedCode(name) ==
  CASE name = "NotFoundError" -> "NOT_FOUND"
    [] name = "NotAllowedError" -> "NOT_ALLOWED"
    [] name = "TypeMismatchError" -> "TYPE_MISMATCH"
    [] name = "InvalidModificationError" -> "INVALID_MODIFICATION"
    [] name = "NoModificationAllowedError" -> "LOCKED"
    [] OTHER -> "UNKNOWN_ERROR"

MissingResult(outcome) ==
  \/ outcome.kind = "null"
  \/ outcome.kind = "results" /\ Len(outcome.results) = 0
  \/ outcome.kind = "results" /\ Len(outcome.results) > 0
       /\ outcome.results[1].result = None

\* a well-formed RPCResponse: present, with a boolean ok
WellFormedResponse(response) == response # None /\ response[1].ok \in BOOLEAN

\* C17: whenever the injection yields a missing or empty result (no results
\* list, an empty list, or a first element with no result value) the relay's
\* response is {ok: false, error.code = "NO_RESULT"}, and every response the
\* relay sends is a well-formed RPCResponse with a boolean ok.
C17_NoResult ==
  /\ \A p \in DOMAIN relay.running :
       (Running(p).stage = "settled" /\ MissingResult(Running(p).outcome)) =>
         /\ WellFormedResponse(RelayResponse(Running(p)).response)
         /\ ~RelayResponse(Running(p)).response[1].ok
         /\ RelayResponse(Running(p)).response[1].code = "NO_RESULT"
  /\ \A p \in DOMAIN relay.sent :
       \A k \in 1..Len(SentOn(p)) : WellFormedResponse(SentOn(p)[k].response)

\* the script execution of the request on port p has settled and the relay
\* has not answered yet
ScriptSettled(p) == p \in DOMAIN relay.running /\ Running(p).stage = "settled"

\* the relay has sent exactly one OPFS_RPC_RESPONSE on port p, and it
\* carries the id of the request the panel made on that port
AnsweredOnce(p) ==
  /\ Len(SentOn(p)) = 1
  /\ SentOn(p)[1].type = "OPFS_RPC_RESPONSE"
  /\ SentOn(p)[1].requestId = Call(p).requestId[1]

\* the step in which the relay answers a settled request on port p: a
\* rejected pipeline is reported as EXECUTION_ERROR with the error's message
AnswersSettled(p) ==
  (ScriptSettled(p) /\ relay'.sent # relay.sent /\ p \in DOMAIN relay'.sent
     /\ Len(relay'.sent[p]) > Len(SentOn(p))) =>
    /\ Len(relay'.sent[p]) = 1
    /\ relay'.sent[p][1].requestId = Running(p).requestId
    /\ Running(p).outcome.kind = "rejected" =>
         relay'.sent[p][1].response =
           Some([ok |-> FALSE, code |-> "EXECUTION_ERROR", data |-> Null,
                 message |-> Running(p).outcome.error])

\* C18: for every OPFS_RPC_REQUEST the relay receives, once the script
\* execution settles the relay sends exactly one OPFS_RPC_RESPONSE with the
\* request's requestId; a rejection of the injection pipeline is answered
\* with EXECUTION_ERROR; after a failed request the relay still answers
\* every later request.
C18_RelayAnswersOnce ==
  /\ [](\A p \in 1..MaxCalls : SentOn(p) # <<>> => AnsweredOnce(p))
  /\ [][\A p \in 1..MaxCalls : AnswersSettled(p)]_vars
  /\ \A p \in 1..MaxCalls : ScriptSettled(p) ~> AnsweredOnce(p)

\* the first request failed in the pipeline and was answered with
\* EXECUTION_ERROR, and the relay has answered the later request too
C18_Witness ==
  /\ Len(calls) = 2
  /\ AnsweredOnce(1) /\ AnsweredOnce(2)
  /\ SentOn(1)[1].response # None
  /\ SentOn(1)[1].response[1].code = "EXECUTION_ERROR"
  /\ SentOn(2)[1].response # None
  /\ SentOn(2)[1].response[1].ok
  /\ Call(1).state = "REJECTED" /\ Call(2).state = "SENT"

\* the inspected target has not been configured, or the messaging channel
\* is unavailable
Unconfigured == panel.inspectedTabId = None \/ ~panel.runtime

\* the call on port i failed before a request existed
FailedFast(i) == Call(i).requestId = None

\* nothing of port i is in the channel or in the relay
Unobserved(i) ==
  /\ \A m \in channel.requests : m.port # i
  /\ i \notin DOMAIN channel.replies
  /\ i \notin DOMAIN relay.running
  /\ i \notin DOMAIN relay.sent

\* a call() made while the dispatcher is unconfigured: it is rejected at
\* once, no request id is made, no message is sent, and the relay, the page
\* and the store see nothing
CallWhileUnconfigured ==
  (Len(calls') > Len(calls) /\ Unconfigured) =>
    /\ Len(calls') = Len(calls) + 1
    /\ calls'[Len(calls')].requestId = None
    /\ calls'[Len(calls')].sends = 0
    /\ calls'[Len(calls')].state = "REJECTED"
    /\ calls'[Len(calls')].settled.kind = "rejected"
    /\ UNCHANGED <<channel, relay, page, store>>

\* C19: the dispatcher fails fast: when the inspected target has not been
\* configured or the messaging channel is unavailable, call() fails without
\* generating a request id and without sending any message, so the relay
\* and the page never observe the call.
C19_FailsFast ==
  /\ [][CallWhileUnconfigured]_vars
  /\ [](\A i \in Ports :
          FailedFast(i) =>
            /\ Call(i).sends = 0
            /\ Call(i).state = "REJECTED"
            /\ Unobserved(i))

\* the first call went through the relay; then the runtime was invalidated
\* and the second call failed fast
C19_Witness ==
  /\ Len(calls) = 2
  /\ ~panel.runtime
  /\ ~FailedFast(1) /\ Call(1).state = "RESOLVED"
  /\ FailedFast(2) /\ Call(2).state = "REJECTED"
  /\ Call(2).settled.message = <<"Chrome runtime API not available">>
  /\ page.tag = Some(HandlerVersion)

\* the states of a call and the ones it never leaves
CallStates == {"CREATED", "SENT", "RESOLVED", "REJECTED"}
Terminal == {"RESOLVED", "REJECTED"}

\* the shape of the call on port i in each state: one message sent from
\* SENT on, settled exactly in the terminal states
CallShape(i) ==
  /\ Call(i).state \in CallStates
  /\ Call(i).sends = (IF Call(i).state = "CREATED" THEN 0 ELSE 1)
  /\ Call(i).settled.kind =
       (CASE Call(i).state = "RESOLVED" -> "resolved"
          [] Call(i).state = "REJECTED" -> "rejected"
          [] OTHER -> "none")

\* one step of the call on port i: CREATED -> SENT -> {RESOLVED | REJECTED}
\* and nothing else; the request goes out in the step to SENT only; a
\* settled call is never touched again; a SENT call moves only in the step
\* in which its reply is handed to the callback
CallStep(i) ==
  /\ calls'[i].command = Call(i).command
  /\ calls'[i].params = Call(i).params
  /\ calls'[i].requestId = Call(i).requestId
  /\ \/ calls'[i] = Call(i)
     \/ Call(i).state = "CREATED" /\ calls'[i].state = "SENT"
     \/ Call(i).state = "SENT" /\ calls'[i].state \in Terminal
          /\ i \in DOMAIN channel.replies /\ i \notin DOMAIN channel'.replies
  /\ (\E m \in channel'.requests \ channel.requests : m.port = i) <=>
       (Call(i).state = "CREATED" /\ calls'[i].state = "SENT")

\* a call that starts in this step starts CREATED
StartsCreated ==
  Len(calls') > Len(calls) =>
    /\ Len(calls') = Len(calls) + 1
    /\ calls'[Len(calls')].state = "CREATED"

\* the calls that passed the checks of sendRPCRequest and made a request
Requested == {i \in Ports : ~FailedFast(i)}

\* C20 as stated, for every call: each dispatcher call follows CREATED ->
\* SENT -> {RESOLVED | REJECTED}, sends exactly one request message and
\* never re-sends it, settles at most once, RESOLVED and REJECTED are
\* terminal, and a call whose response never arrives stays SENT forever.
C20_EveryCall ==
  /\ [](\A i \in Ports : CallShape(i))
  /\ [][StartsCreated /\ \A i \in Ports : CallStep(i)]_vars

\* C20, for the calls that pass the dispatcher's fail-fast checks: each such
\* call follows CREATED -> SENT -> {RESOLVED | REJECTED}, sends exactly one
\* request message and never re-sends it, settles at most once, RESOLVED and
\* REJECTED are terminal, and a call whose response never arrives stays SENT
\* forever (no timeout, no retry).
C20_CallStateMachine ==
  /\ [](\A i \in Requested : CallShape(i))
  /\ [][(~Unconfigured => StartsCreated) /\ \A i \in Requested : CallStep(i)]_vars

\* the first call has been resolved by its one response; the second, a copy
\* that never ends, has been sent once and waits
C20_Witness ==
  /\ Len(calls) = 2
  /\ Requested = {1, 2}
  /\ Call(1).state = "RESOLVED" /\ Call(1).sends = 1
  /\ SentOn(1) # <<>>
  /\ Call(2).command = "fs.copy"
  /\ Call(2).state = "SENT" /\ Call(2).sends = 1
  /\ 2 \in Executing

\* the call on port i has settled as the response r says: a non-success
\* response rejects with its code and message, a success response resolves
\* to its data
SettledAs(i, r) ==
  IF r.ok
  THEN Call(i).state = "RESOLVED" /\ Call(i).settled = Resolved(r.data)
  ELSE /\ Call(i).state = "REJECTED"
       /\ Call(i).settled = Rejected(Some(r.code), r.message)

\* the settled calls that were answered with an RPCResponse
AnsweredCalls ==
  {i \in Ports : /\ Call(i).state \in {"RESOLVED", "REJECTED"}
                 /\ SentOn(i) # <<>>
                 /\ SentOn(i)[1].response # None}

\* C21: every rejection of call() is an error whose code field holds a code
\* of the closed taxonomy; for a non-success response the code equals
\* response.error.code and the message equals response.error.message; a
\* success response resolves to exactly response.data.
C21_TypedFailures ==
  /\ \A i \in Ports :
       Call(i).state = "REJECTED" =>
         /\ Call(i).settled.code # None
         /\ Call(i).settled.code[1] \in Taxonomy
  /\ \A i \in AnsweredCalls : SettledAs(i, SentOn(i)[1].response[1])

\* the call on port i was settled from an RPCResponse (resolved, or
\* rejected with a code)
SettledFromResponse(i) ==
  Call(i).state = "RESOLVED" \/ Call(i).settled.code # None

\* the result of the call's own command and params on the store st
OwnResult(i, st) ==
  LET r == Handler(st, Call(i).command, Call(i).params, AnyOrder, TRUE)
  IN RpcResponse(r.resp, r.message)

\* the step in which the script of port p returns a result: it is the result
\* of the command and params of the call on port p
ReturnsOwnResult(p) ==
  (/\ p \in Executing
   /\ p \in DOMAIN relay'.running
   /\ relay'.running[p].stage = "settled"
   /\ relay'.running[p].outcome.kind = "results"
   /\ Len(relay'.running[p].outcome.results) > 0
   /\ relay'.running[p].outcome.results[1].result # None) =>
    relay'.running[p].outcome.results[1].result = Some(OwnResult(p, store))

\* the step in which the relay answers on port p: the message carries the
\* id of the call on port p and the outcome of its script
SendsOwnOutcome(p) ==
  (ScriptSettled(p) /\ p \in DOMAIN relay'.sent
     /\ Len(relay'.sent[p]) > Len(SentOn(p))) =>
    /\ relay'.sent[p] = <<RelayResponse(Running(p))>>
    /\ Running(p).requestId = Call(p).requestId[1]
    /\ Running(p).command = Call(p).command
    /\ Running(p).params = Call(p).params
    /\ channel'.replies[p].response = Some(relay'.sent[p][1])

\* C22: under concurrent calls and any completion order each call is
\* correlated independently: it settles only with the response produced for
\* its own request (the response with the id the call generated, whose
\* payload is the result of its own command and params), never with the
\* response of another in-flight call.
C22_IndependentCorrelation ==
  /\ [](\A i \in Ports :
          SettledFromResponse(i) =>
            /\ i \in AnsweredCalls
            /\ SentOn(i)[1].requestId = Call(i).requestId[1]
            /\ SettledAs(i, SentOn(i)[1].response[1]))
  /\ [][\A p \in Ports : ReturnsOwnResult(p) /\ SendsOwnOutcome(p)]_vars

\* two calls in flight with the same request id; the second, an unknown
\* command, has been settled with its own answer while the first, sent
\* earlier, is still executing
C22_Witness ==
  /\ Len(calls) = 2
  /\ Call(1).requestId = Call(2).requestId
  /\ Call(1).command = "fs.mkdir" /\ Call(1).state = "SENT" /\ 1 \in Executing
  /\ Call(2).command = "fs.rename" /\ Call(2).state = "REJECTED"
  /\ Call(2).settled.code = Some("UNKNOWN_COMMAND")

\* the step in which the injected function of the request on port p runs
\* in the page: executeScript resolves with an InjectionResult
Invoked(p) ==
  /\ p \in Executing
  /\ p \in DOMAIN relay'.running
  /\ relay'.running[p].stage = "settled"
  /\ relay'.running[p].outcome.kind = "results"
  /\ Len(relay'.running[p].outcome.results) > 0

\* the page as instrumented by this build
Instrumented(pg) ==
  pg.tag = Some(HandlerVersion) /\ pg.handler = Some(HandlerVersion)

\* one invocation: the handler is defined and the tag stamped exactly when
\* the tag is absent or different, a matching handler is left as it is, and
\* the handler runs the command in the same step
InvokesOnce(p) ==
  Invoked(p) =>
    /\ Instrumented(page')
    /\ IF page.tag = Some(HandlerVersion)
       THEN page' = page
       ELSE page'.defined = page.defined + 1
    /\ store' = Handler(store, Running(p).command, Running(p).params,
                        AnyOrder, TRUE).st

\* a request is executed once: a settled execution is never run again, and
\* an execution starts only for a request that has none behind it
ExecutedOnce(p) ==
  /\ ScriptSettled(p) =>
       (p \notin DOMAIN relay'.running \/ relay'.running[p] = relay.running[p])
  /\ (p \notin DOMAIN relay.running /\ p \in DOMAIN relay'.running) =>
       /\ SentOn(p) = <<>>
       /\ relay'.running[p].stage = "executing"
       /\ UNCHANGED <<page, store>>

\* C23: on every invocation the injected call compares the page's tag with
\* the expected constant, (re-)defines the handler and stamps the tag if and
\* only if the tag is absent or different, leaves a matching handler
\* untouched, and invokes the handler in the same call: each request costs
\* exactly one script execution whatever the instrumentation state, and
\* after any invocation the page's tag is the expected constant.
C23_InjectionByTag ==
  [][\A p \in Ports : InvokesOnce(p) /\ ExecutedOnce(p)]_vars

\* the page carried the handler of an earlier build; the first request
\* replaced it, and the second request has run on the matching handler
\* without defining it again
C23_Witness ==
  /\ Len(calls) = 2
  /\ Instrumented(page)
  /\ page.defined = 2
  /\ SentOn(1) # <<>> /\ ScriptSettled(2)
  /\ Running(2).outcome.kind = "results"
  /\ Len(Running(2).outcome.results) > 0

\* fs.move was called with from and to and the backing store refused no call
MoveRan ==
  /\ last.cmd = "fs.move"
  /\ last.params.from # None /\ last.params.to # None
  /\ last.raised \notin Failures

\* every entry of the subtree of st1 at p is in st2 with what it held
KeptSubtree(st2, st1, p) ==
  \A x \in Subtree(st1, p) : x \in DOMAIN st2 /\ st2[x] = st1[x]

\* the store and the response are those of the copy c followed, when c has
\* succeeded, by the recursive delete of the source; after a failed copy the
\* source subtree is what it was
CopyThenDelete(c) ==
  IF c.err # ""
  THEN /\ store = c.st
       /\ ~last.resp.ok
       /\ last.resp = ErrorResponse(ErrorCode(c.err))
       /\ KeptSubtree(store, prev, Parts(Param("from")))
  ELSE \E d \in {deleteEntry(c.st, Param("from"), TRUE)} :
         /\ store = d.st
         /\ last.resp.ok = (d.err = "")

\* C24: fs.move is copy followed by delete, in that order: the recursive
\* delete of the source starts only after the copy has completed
\* successfully; if the copy fails the delete is never performed, the move
\* returns an error response and the whole source subtree is still present
\* with its original content.
C24_MoveCopyThenDelete ==
  MoveRan =>
    \E ord \in Orders, live \in BOOLEAN :
      CopyThenDelete(copyEntry(prev, Param("from"), Param("to"),
                               Flag(last.params.overwrite), ord, live))

\* a file of st lies on the path: at its last segment or at one before it
FileOnPath(st, path) ==
  \E k \in 1..Len(Parts(path)) : IsFile(st, SubSeq(Parts(path), 1, k))

\* C25: fs.mkdir(path) over a path where a file already exists, as the final
\* segment or as any intermediate segment, fails with code TYPE_MISMATCH,
\* and the store, that file's content included, is unchanged.
C25_MkdirOverFile ==
  (Ran("fs.mkdir") /\ FileOnPath(prev, Param("path"))) =>
    /\ last.resp = ErrorResponse("TYPE_MISMATCH")
    /\ store = prev

\* mkdir("/b/a") has been refused while /b is a file holding "a"
C25_Witness ==
  /\ Ran("fs.mkdir")
  /\ Param("path") = <<SLASH, "b", SLASH, "a">>
  /\ IsFile(prev, <<"b">>) /\ prev[<<"b">>].content = <<97>>
  /\ last.resp.code = "TYPE_MISMATCH"
  /\ store[<<"b">>] = FileNode(<<97>>)

\* "//a//b/" for the segment sequence <<a, b>>; "//" for the root
RECURSIVE DoubledSlashes(_)
DoubledSlashes(segs) ==
  IF Len(segs) = 0 THEN <<SLASH>>
  ELSE <<SLASH, SLASH, Head(segs)>> \o DoubledSlashes(Tail(segs))

\* path strings with the non-empty segments of path: "/a/b", "a/b" and
\* "//a//b/" ("/", "" and "//" for the root)
Spellings(path) ==
  {<<SLASH>> \o JoinSlash(Parts(path)), JoinSlash(Parts(path)),
   IF Parts(path) = <<>> THEN <<SLASH, SLASH>> ELSE DoubledSlashes(Parts(path))}

\* the params of the last command with its paths spelled otherwise
Respelled ==
  IF last.cmd \in {"fs.copy", "fs.move"}
  THEN {[last.params EXCEPT !.from = Some(f), !.to = Some(t)] :
          f \in Spellings(Param("from")), t \in Spellings(Param("to"))}
  ELSE {[last.params EXCEPT !.path = Some(q)] : q \in Spellings(Param("path"))}

\* a command that takes paths was called with them and the backing store
\* refused no call
PathCommandRan ==
  /\ last.cmd \in Commands \ {"opfs.isAvailable", "opfs.estimate"}
  /\ last.raised \notin Failures
  /\ IF last.cmd \in {"fs.copy", "fs.move"}
     THEN last.params.from # None /\ last.params.to # None
     ELSE last.params.path # None

\* two runs of the handler with the same result and the same effect
SameOutcome(r1, r2) ==
  r1.resp = r2.resp /\ r1.st = r2.st /\ r1.overflow = r2.overflow

\* C26: paths are compared by their sequence of non-empty segments: for
\* every command and every store, two path arguments with the same
\* non-empty segments ("" and "/", "/a/b" and "//a//b/" and "a/b") address
\* the same node and give identical results and identical effects, the path
\* fields of the entries fs.list returns included.
C26_PathSpellings ==
  PathCommandRan =>
    \A ord \in Orders, live \in BOOLEAN, params \in Respelled :
      SameOutcome(Handler(prev, last.cmd, last.params, ord, live),
                  Handler(prev, last.cmd, params, ord, live))

(* ----------- the panel's path utilities (src/panel/utils/path.ts) ------- *)
\* The panel's strings are sequences of characters, so that a segment may
\* be a string prefix of another one.
Chars == {SLASH, ".", "a", "b"}
MaxChars == 5
MaxPairChars == 4

\* the strings over an alphabet of at most max characters
Strings(alphabet, max) == UNION {[1..n -> alphabet] : n \in 0..max}

\* s.split('/'): the strings between separators, empty ones included
RECURSIVE StrSplitFrom(_, _, _)
StrSplitFrom(s, i, cur) ==
  IF i > Len(s) THEN <<cur>>
  ELSE IF s[i] = SLASH THEN <<cur>> \o StrSplitFrom(s, i + 1, <<>>)
       ELSE StrSplitFrom(s, i + 1, Append(cur, s[i]))

StrSplit(s) == StrSplitFrom(s, 1, <<>>)

\* .filter((p) => p.length > 0)
NonEmpty(parts) == SelectSeq(parts, LAMBDA p : Len(p) > 0)

\* parts.join('/')
RECURSIVE StrJoin(_)
StrJoin(parts) ==
  IF Len(parts) = 0 THEN <<>>
  ELSE IF Len(parts) = 1 THEN parts[1]
       ELSE parts[1] \o <<SLASH>> \o StrJoin(Tail(parts))

\* .flat()
RECURSIVE Flat(_)
Flat(lists) ==
  IF Len(lists) = 0 THEN <<>> ELSE Head(lists) \o Flat(Tail(lists))

\* name.endsWith(ext), s.startsWith(prefix)
EndsWith(s, ext) ==
  Len(ext) <= Len(s) /\ SubSeq(s, Len(s) - Len(ext) + 1, Len(s)) = ext
StartsWith(s, prefix) ==
  Len(prefix) <= Len(s) /\ SubSeq(s, 1, Len(prefix)) = prefix

\* name.lastIndexOf('.') + 1: 0 when the name has no dot
LastDot(name) ==
  LET dots == {i \in 1..Len(name) : name[i] = "."}
  IN IF dots = {} THEN 0 ELSE CHOOSE i \in dots : \A j \in dots : j <= i

normalizeUnfiltered(path) == <<SLASH>> \o StrJoin(StrSplit(path))

normalize(path) ==
  LET parts == NonEmpty(StrSplit(path))
  IN <<SLASH>> \o StrJoin(parts)

join(paths) ==
  LET combined == NonEmpty(Flat([i \in 1..Len(paths) |-> StrSplit(paths[i])]))
  IN <<SLASH>> \o StrJoin(combined)

dirnameOfTail(path) ==
  LET normalized == normalize(path)
      parts == NonEmpty(StrSplit(normalized))
  IN IF Len(parts) <= 1 THEN <<SLASH>>
     ELSE <<SLASH>> \o StrJoin(Tail(parts))

dirname(path) ==
  LET normalized == normalize(path)
      parts == NonEmpty(StrSplit(normalized))
  IN IF Len(parts) <= 1 THEN <<SLASH>>
     ELSE <<SLASH>> \o StrJoin(Front(parts))

\* ext is the empty string when the caller leaves it out: both are falsy
basename(path, ext) ==
  LET normalized == normalize(path)
      parts == NonEmpty(StrSplit(normalized))
      name == IF Len(parts) = 0 THEN <<>> ELSE parts[Len(parts)]
  IN IF Len(ext) > 0 /\ EndsWith(name, ext)
     THEN SubSeq(name, 1, Len(name) - Len(ext))
     ELSE name

extname(path) ==
  LET name == basename(path, <<>>)
      lastDot == LastDot(name)
  IN IF lastDot = 0 \/ lastDot = 1 THEN <<>>
     ELSE SubSeq(name, lastDot, Len(name))

isChildOfByString(childPath, parentPath) ==
  LET normalizedChild == normalize(childPath)
      normalizedParent == normalize(parentPath)
  IN IF normalizedParent = <<SLASH>> THEN normalizedChild # <<SLASH>>
     ELSE StartsWith(normalizedChild, normalizedParent)

isChildOf(childPath, parentPath) ==
  LET normalizedChild == normalize(childPath)
      normalizedParent == normalize(parentPath)
  IN IF normalizedParent = <<SLASH>> THEN normalizedChild # <<SLASH>>
     ELSE StartsWith(normalizedChild, normalizedParent \o <<SLASH>>)

\* `${counter}`: the decimal digits of a number
Digit(d) == <<"0", "1", "2", "3", "4", "5", "6", "7", "8", "9">>[d + 1]
RECURSIVE Digits(_)
Digits(n) ==
  IF n < 10 THEN <<Digit(n)>> ELSE Append(Digits(n \div 10), Digit(n % 10))

\* the counters the loop tries are 2 .. COUNTER_LIMIT - 1
COUNTER_LIMIT == 1000

\* the default value of the parameter suffix: ' copy'
DefaultSuffix == <<" ", "c", "o", "p", "y">>

\* baseName without its extension
WithoutExt(baseName) ==
  LET ext == extname(baseName)
  IN IF Len(ext) > 0 THEN SubSeq(baseName, 1, Len(baseName) - Len(ext))
     ELSE baseName

\* `${nameWithoutExt}${suffix} ${counter}${ext}`
Numbered(baseName, suffix, counter) ==
  WithoutExt(baseName) \o suffix \o <<" ">> \o Digits(counter)
    \o extname(baseName)

\* now is the reading of Date.now() the fallback takes
generateUniqueName(baseName, existingNames, suffix, now) ==
  LET ext == extname(baseName)
      nameWithoutExt == WithoutExt(baseName)
      first == nameWithoutExt \o suffix \o ext
      free == {counter \in 2..(COUNTER_LIMIT - 1) :
                 Numbered(baseName, suffix, counter) \notin existingNames}
  IN IF first \notin existingNames THEN first
     ELSE IF free # {}
          THEN Numbered(baseName, suffix,
                        CHOOSE c \in free : \A d \in free : c <= d)
          ELSE Numbered(baseName, suffix, now)

(* ------------------ calls of the panel's path utilities ----------------- *)
\* the paths given to the utilities of one path, and to those of two
StrInputs == Strings(Chars, MaxChars)
PairInputs == Strings({SLASH, "a", "b"}, MaxPairChars)

\* entry names: no separator in them
NameInputs == Strings({".", "a", "b"}, 3) \ {<<>>}
SuffixInputs == {DefaultSuffix, <<"_">>}

\* the readings of Date.now()
Clock == {2000000000, 2000000001}

\* the base names tried in a crowded directory
CrowdedNames == {<<"a">>, <<"a", ".", "b">>}

\* a directory that holds every name the loop of generateUniqueName tries
Crowded(baseName, suffix) ==
  {WithoutExt(baseName) \o suffix \o extname(baseName)}
    \cup {Numbered(baseName, suffix, c) : c \in 2..(COUNTER_LIMIT - 1)}

\* the sets of existing names: the base name and the first candidates, any
\* of them present, and the crowded directory, alone or with the name of
\* a clock reading in it
ExistingInputs(baseName, suffix) ==
  (SUBSET {baseName,
           WithoutExt(baseName) \o suffix \o extname(baseName),
           Numbered(baseName, suffix, 2),
           Numbered(baseName, suffix, 3)})
    \cup (IF baseName \in CrowdedNames
          THEN {Crowded(baseName, suffix)}
                 \cup {Crowded(baseName, suffix)
                         \cup {Numbered(baseName, suffix, now)} : now \in Clock}
          ELSE {})

UniqueNameInputs ==
  UNION {{<<baseName, existing, suffix>> :
            existing \in ExistingInputs(baseName, suffix)} :
         baseName \in NameInputs, suffix \in SuffixInputs}

\* the arguments of a call that has not run yet
ArgInputs ==
  {<<p>> : p \in StrInputs}
    \cup {<<p, q>> : p \in PairInputs, q \in PairInputs}
    \cup UniqueNameInputs

InitPath ==
  /\ store = EmptyStore
  /\ prev = EmptyStore
  /\ last = Idle
  /\ InitRpc
  /\ util \in {[fn |-> "none", args |-> a, result |-> <<>>] : a \in ArgInputs}
  /\ InitUi

Returns(fn, result) ==
  /\ util' = [util EXCEPT !.fn = fn, !.result = result]
  /\ UNCHANGED <<store, prev, last, rpc, ui>>

Normalize ==
  /\ util.fn = "none" /\ Len(util.args) = 1
  /\ Returns("normalize", normalize(util.args[1]))

Dirname ==
  /\ util.fn = "none" /\ Len(util.args) = 1
  /\ Returns("dirname", dirname(util.args[1]))

\* basename(path) and basename(path, ext)
Basename ==
  /\ util.fn = "none" /\ Len(util.args) \in {1, 2}
  /\ Returns("basename",
             basename(util.args[1],
                      IF Len(util.args) = 2 THEN util.args[2] ELSE <<>>))

Extname ==
  /\ util.fn = "none" /\ Len(util.args) = 1
  /\ Returns("extname", extname(util.args[1]))

Join ==
  /\ util.fn = "none" /\ Len(util.args) = 2
  /\ Returns("join", join(util.args))

IsChildOf ==
  /\ util.fn = "none" /\ Len(util.args) = 2
  /\ Returns("isChildOf", isChildOf(util.args[1], util.args[2]))

GenerateUniqueName ==
  /\ util.fn = "none" /\ Len(util.args) = 3
  /\ \E now \in Clock :
       Returns("generateUniqueName",
               generateUniqueName(util.args[1], util.args[2], util.args[3], now))

NextPath ==
  \/ Normalize
  \/ Dirname
  \/ Basename
  \/ Extname
  \/ Join
  \/ IsChildOf
  \/ GenerateUniqueName

SpecPath == InitPath /\ [][NextPath]_vars

(* ------------------------------- C27 ----------------------------------- *)
\* the non-empty segments of a string, in order
Segments(s) == NonEmpty(StrSplit(s))

\* a path in normal form: a leading slash, no empty segment, no trailing
\* slash; the root is the slash alone
NormalForm(s) ==
  /\ Len(s) >= 1 /\ s[1] = SLASH
  /\ \A i \in 1..(Len(s) - 1) : ~(s[i] = SLASH /\ s[i + 1] = SLASH)
  /\ Len(s) > 1 => s[Len(s)] # SLASH

\* the characters of a string that are no separators
Unseparated(s) == SelectSeq(s, LAMBDA c : c # SLASH)

\* C27: for every string p, normalize(p) starts with '/', has no empty
\* segment and no trailing slash (the root is exactly "/", also for the
\* empty string), keeps the non-empty segments of p in order, and is a
\* fixed point of normalize.
C27_Normalize ==
  util.fn = "normalize" =>
    LET p == util.args[1]
        r == util.result
    IN /\ NormalForm(r)
       /\ (Segments(p) = <<>>) = (r = <<SLASH>>)
       /\ p = <<>> => r = <<SLASH>>
       /\ Segments(r) = Segments(p)
       /\ Unseparated(r) = Unseparated(p)
       /\ Len(r) = 1 + Len(Unseparated(p)) + (IF Segments(p) = <<>> THEN 0
                                               ELSE Len(Segments(p)) - 1)
       /\ normalize(r) = r

\* normalize has run on a path of several segments spelled with a missing
\* leading slash, a doubled slash and a trailing one
C27_Witness ==
  /\ util.fn = "normalize"
  /\ util.args[1] = <<"a", SLASH, SLASH, "b", SLASH>>
  /\ util.result = <<SLASH, "a", SLASH, "b">>

(* ------------------------------- C28 ----------------------------------- *)
\* The in-page functions are modelled on paths whose segments are single
\* tokens; a string of the panel is given to them with every segment made
\* one token and every separator kept.
RECURSIVE Str(_)
Str(chars) == IF Len(chars) = 0 THEN "" ELSE Head(chars) \o Str(Tail(chars))

Tokenize(s) ==
  LET parts == StrSplit(s)
  IN Flat([i \in 1..Len(parts) |->
             (IF i > 1 THEN <<SLASH>> ELSE <<>>)
               \o (IF Len(parts[i]) = 0 THEN <<>> ELSE <<Str(parts[i])>>)])

\* the path of a sequence of segments
PathOf(segs) == <<SLASH>> \o StrJoin(segs)

ParentOf(p, r) ==
  LET segs == Segments(p)
      n == Len(segs)
  IN /\ n <= 1 => r = <<SLASH>>
     /\ n >= 1 => r = PathOf(SubSeq(segs, 1, n - 1))
     /\ join(<<r, basename(p, <<>>)>>) = normalize(p)
     /\ Tokenize(r) = getParentPath(Tokenize(p))

BasenameOf(p, r) ==
  LET segs == Segments(p)
      n == Len(segs)
  IN /\ n = 0 => r = <<>>
     /\ n >= 1 => r = segs[n]
     /\ join(<<dirname(p), r>>) = normalize(p)
     /\ Str(r) = getBasename(Tokenize(p))

\* C28: the parent of the root and of a single-segment path is "/", the
\* basename of the root is the empty string; for a path of n >= 1 segments
\* the parent is the path of the first n-1 segments and the basename is
\* the last segment, so join(dirname(p), basename(p)) = normalize(p); and
\* the in-page getParentPath and getBasename give the same answers.
C28_ParentAndBasename ==
  /\ util.fn = "dirname" => ParentOf(util.args[1], util.result)
  /\ (util.fn = "basename" /\ Len(util.args) = 1) =>
       BasenameOf(util.args[1], util.result)

\* dirname has run on a path of two segments, the first of two characters,
\* spelled without a leading slash and with a trailing one
C28_Witness ==
  /\ util.fn = "dirname"
  /\ util.args[1] = <<"a", "b", SLASH, "a", SLASH>>
  /\ util.result = <<SLASH, "a", "b">>
  /\ getParentPath(Tokenize(util.args[1])) = <<SLASH, "ab">>

(* ------------------------------- C29 ----------------------------------- *)
\* the first sequence of segments is a prefix of the second and shorter
StrictPrefix(short, long) ==
  Len(short) < Len(long) /\ SubSeq(long, 1, Len(short)) = short

\* C29: isChildOf(child, parent) is true exactly when the segments of
\* parent are a strict prefix of the segments of child: false for equal
\* paths, false when parent is only a string prefix of a segment of child,
\* true for every path but the root when parent is the root.
C29_IsChildOf ==
  util.fn = "isChildOf" =>
    LET child == util.args[1]
        parent == util.args[2]
    IN /\ util.result = StrictPrefix(Segments(parent), Segments(child))
       /\ Segments(child) = Segments(parent) => ~util.result
       /\ Segments(parent) = <<>> => util.result = (Segments(child) # <<>>)

\* isChildOf has answered false for a child whose normal form has the
\* parent's as a string prefix, though not as a prefix of segments
C29_Witness ==
  /\ util.fn = "isChildOf"
  /\ util.args = << <<SLASH, "a", "a">>, <<SLASH, "a">> >>
  /\ StartsWith(normalize(util.args[1]), normalize(util.args[2]))
  /\ util.result = FALSE

(* ------------------------------- C30 ----------------------------------- *)
\* the name is the base name with the suffix before the extension when
\* that is free, and otherwise the same with the smallest counter from 2
\* whose name is free
SmallestFree(baseName, existing, suffix, name) ==
  LET first == WithoutExt(baseName) \o suffix \o extname(baseName)
  IN IF first \notin existing THEN name = first
     ELSE \E c \in 2..COUNTER_LIMIT :
            /\ Numbered(baseName, suffix, c) \notin existing
            /\ \A d \in 2..(c - 1) : Numbered(baseName, suffix, d) \in existing
            /\ name = Numbered(baseName, suffix, c)

\* the name begins with the base name less its extension and ends with
\* the extension
KeepsExtension(baseName, name) ==
  /\ StartsWith(name, WithoutExt(baseName))
  /\ EndsWith(name, extname(baseName))
  /\ extname(name) = extname(baseName)

\* C30: generateUniqueName(baseName, existingNames, suffix) returns a name
\* that is no member of existingNames: the base name with the suffix
\* before the extension when that is free, otherwise the same with the
\* smallest counter >= 2 whose name is free; the extension is preserved.
C30_UniqueName ==
  util.fn = "generateUniqueName" =>
    /\ util.result \notin util.args[2]
    /\ SmallestFree(util.args[1], util.args[2], util.args[3], util.result)
    /\ KeepsExtension(util.args[1], util.result)

(* ------------------------------- C31 ----------------------------------- *)
\* the proper and improper prefixes of the segments of a path
Prefixes(path) == {SubSeq(Parts(path), 1, i) : i \in 1..Len(Parts(path))}
\* every segment of the path denotes an existing directory
AllDirs(st, path) == \A q \in Prefixes(path) : IsDir(st, q)
\* no segment of the path denotes a file
NoFileOn(st, path) == \A q \in Prefixes(path) : ~IsFile(st, q)

\* resolution without create, as fs.list performs it and as the resolver
\* computes it for every path on every store reached (between commands):
\* defined exactly when every segment is an existing directory, and the
\* store is left alone
ResolvesExisting ==
  /\ Ran("fs.list") =>
       /\ last.resp.ok <=> AllDirs(prev, Param("path"))
       /\ store = prev
  /\ Ready =>
       \A p \in PathInputs :
          \E r \in {getDirectoryHandle(store, p, FALSE)} :
             /\ r.err = "" <=> AllDirs(store, p)
             /\ r.err = "" => r.h = Parts(p)
             /\ r.st = store

Intermediate(path) == Prefixes(path) \ {Parts(path)}

\* an intermediate segment of the path is missing or is a file
BrokenOn(st, path) == \E q \in Intermediate(path) : ~IsDir(st, q)

\* the commands that resolve a path without create, and the path resolved
Resolving == {"fs.list", "fs.stat", "fs.readText", "fs.readBase64", "fs.delete"}
ResolvedWithoutCreate ==
  \/ last.cmd \in Resolving /\ Ran(last.cmd)
  \/ /\ last.cmd = "fs.copy"
     /\ last.params.from # None /\ last.params.to # None
     /\ last.raised \notin Failures
ResolvedPath == IF last.cmd = "fs.copy" THEN Param("from") ELSE Param("path")

\* C32: when create is false and an intermediate segment of the path is
\* missing or is a file, the command that resolves the path (list, stat,
\* readText, readBase64, delete, copy) answers with an error of code
\* NOT_FOUND.
C32_IntermediateNotFound ==
  (ResolvedWithoutCreate /\ BrokenOn(prev, ResolvedPath)) =>
    /\ ~last.resp.ok
    /\ last.resp.code = "NOT_FOUND"

(* --------------------------------- C34 --------------------------------- *)
\* fs.copy or fs.move was called with both of its paths and the backing
\* store refused no call
RanOnPair ==
  /\ last.cmd \in {"fs.copy", "fs.move"}
  /\ last.params.from # None
  /\ last.params.to # None
  /\ last.raised \notin Failures

\* the response and the store of the command just answered, had it been
\* given overwrite o
WithOverwrite(o, ord, live) ==
  Handler(prev, last.cmd, [last.params EXCEPT !.overwrite = o], ord, live)

\* neither path lies at or under the other
Apart(p, q) == ~IsPrefix(p, q) /\ ~IsPrefix(q, p)

\* C34: the overwrite flag has no effect on fs.copy and fs.move: whatever
\* the flag (true, false or left out) the command gives the same response
\* and leaves the same store, for every iteration order; a file copied onto
\* an existing file replaces its content, and a directory copied onto an
\* existing directory is merged into it (what the destination held and the
\* source does not name stays as it was)
C34_OverwriteIgnored ==
  RanOnPair =>
    /\ \A ord \in Orders, live \in BOOLEAN :
         \E r \in {WithOverwrite(last.params.overwrite, ord, live)} :
           \A o \in BoolInputs :
             \E q \in {WithOverwrite(o, ord, live)} :
               /\ q.st = r.st
               /\ q.resp = r.resp
               /\ q.message = r.message
    /\ \E ord \in Orders, live \in BOOLEAN :
         \E r \in {WithOverwrite(Some(FALSE), ord, live)} :
           r.st = store /\ r.resp = last.resp
    /\ LET from == Parts(Param("from"))
           to == Parts(Param("to"))
       IN (Succeeded("fs.copy") /\ Apart(from, to) /\ Exists(prev, to)) =>
            /\ IsFile(prev, from) => store[to] = prev[from]
            /\ IsDir(prev, from) =>
                 /\ HoldsCopyOf(store, to, prev, from)
                 /\ \A x \in Subtree(prev, to) :
                      /\ Exists(store, x)
                      /\ ~Exists(prev, from \o Rel(to, x)) => store[x] = prev[x]

\* a file was copied, with the flag left out, onto a file that held
\* something else, and a directory onto a directory that held an entry the
\* source does not name
C34_Witness ==
  /\ Succeeded("fs.copy")
  /\ last.params.overwrite = None
  /\ LET from == Parts(Param("from"))
         to == Parts(Param("to"))
     IN /\ Apart(from, to)
        /\ \/ /\ IsFile(prev, from) /\ IsFile(prev, to)
              /\ prev[to] # prev[from]
              /\ store[to] = prev[from]
           \/ /\ IsDir(prev, from) /\ IsDir(prev, to)
              /\ \E x \in Subtree(prev, to) :
                   x # to /\ ~Exists(prev, from \o Rel(to, x)) /\ Exists(store, x)
              /\ Kids(prev, from) # {}

(* --------------------------------- C35 --------------------------------- *)
\* the commands that only read
ReadOnlyCommands ==
  {"opfs.isAvailable", "opfs.estimate", "fs.list", "fs.stat", "fs.readText",
   "fs.readBase64"}

\* C35: opfs.isAvailable, opfs.estimate, fs.list, fs.stat, fs.readText and
\* fs.readBase64 leave the store as it was, in every state and with every
\* parameter, whether they succeed, fail, lack their path or are refused by
\* the backing store
C35_ReadOnlyLeaveStore ==
  last.cmd \in ReadOnlyCommands => store = prev

\* a read of a missing file below a missing directory has failed, in a
\* store that holds other entries
C35_Witness ==
  /\ Ran("fs.readText")
  /\ ~last.resp.ok
  /\ Len(Parts(Param("path"))) >= 2
  /\ ~Exists(store, Front(Parts(Param("path"))))
  /\ Entries(store) >= 2

(* --------------------------------- C36 --------------------------------- *)
\* C36: whatever the order in which concurrent requests reach the page and
\* the page reloads, a page whose tag is the expected constant has a handler
\* defined, and it is the handler of that version; every invocation the
\* injected function may make now calls a defined handler of that version
\* and leaves the page so
C36_TagImpliesHandler ==
  /\ page.tag = Some(HandlerVersion) =>
       page.handler = Some(HandlerVersion) /\ page.defined >= 1
  /\ page.tag = None => page.handler = None
  /\ \A p \in Executing :
       \E f \in {InjectedFunc(page, store, Running(p).command, Running(p).params)} :
         /\ f.invoked = Some(HandlerVersion)
         /\ f.page.tag = Some(HandlerVersion)
         /\ f.page.handler = Some(HandlerVersion)

\* two requests are in the relay at once, one answered by the page and one
\* not yet run, and the page has reloaded since the first was answered
C36_Witness ==
  /\ page.tag = None
  /\ Executing # {}
  /\ \E q \in DOMAIN relay.running :
       /\ Running(q).stage = "settled"
       /\ Running(q).outcome \in {Results(<<[result |-> Some(r)]>>) :
            r \in {RpcResponse(Handler(st, c.command, c.params, AnyOrder, TRUE).resp,
                               Handler(st, c.command, c.params, AnyOrder, TRUE).message) :
                   c \in RpcCalls, st \in {EmptyStore, store}}}

(* ------------------- fs.copy and fs.move, step by step ------------------ *)
\* copying.stack holds one frame for every call of copyEntry that has not
\* returned, the innermost last: its from and to, whether it has yet to
\* resolve its source ("start") or is in its for-await loop ("iterate"),
\* the directory it iterates, the names already yielded and the names
\* present when the iteration began
Frame(from, to) ==
  [from |-> from, to |-> to, pc |-> "start", dir |-> RootPath, past |-> {},
   snapshot |-> {}]

\* the calls of copyEntry the model keeps; a copy that nests deeper is
\* followed with its outermost call left out
MaxDepth == 4

panelState == <<recents, favorites, history, historyIndex, pending>>

CopyRunning == copying.state = "running"
Top == copying.stack[Len(copying.stack)]

\* the innermost call has returned
Popped == [copying EXCEPT !.stack = Front(@)]
\* the command rejects with e
CopyRejected(e) == [copying EXCEPT !.state = "rejected", !.err = e, !.stack = <<>>]

\* fs.copy or fs.move is called: copyEntry(from, to, overwrite)
CopyCalled ==
  /\ Ready
  /\ copying.state = "idle"
  /\ \E c \in {"fs.copy", "fs.move"}, f \in CopyPaths, t \in CopyPaths,
        ord \in Orders, live \in BOOLEAN :
       copying' = [state |-> "running", cmd |-> c, from |-> f, to |-> t,
                   stack |-> <<Frame(f, t)>>, ord |-> ord, live |-> live,
                   err |-> "", folded |-> FALSE]
  /\ UNCHANGED <<store, prev, last, rpc, util, panelState>>

\* copyEntry up to its loop: the source is resolved; a file is written to
\* the destination and the call returns; for a directory mkdir(to) runs and
\* the iteration of the source's entries begins
CopyResolves ==
  /\ CopyRunning
  /\ copying.stack # <<>>
  /\ Top.pc = "start"
  /\ \E sourceHandle \in {getHandleAtPath(store, Top.from)} :
       IF sourceHandle.err # ""
       THEN copying' = CopyRejected(sourceHandle.err) /\ store' = store
       ELSE IF store[sourceHandle.h].kind = "file"
       THEN \E w \in {CopyFileTo(store, store[sourceHandle.h].content, Top.to)} :
              /\ store' = w.st
              /\ copying' = IF w.err # "" THEN CopyRejected(w.err) ELSE Popped
       ELSE \E m \in {mkdir(store, Top.to)} :
              /\ store' = m.st
              /\ copying' =
                   IF m.err # "" THEN CopyRejected(m.err)
                   ELSE [copying EXCEPT
                           !.stack[Len(copying.stack)] =
                              [@ EXCEPT !.pc = "iterate", !.dir = sourceHandle.h,
                                        !.snapshot = KidNames(m.st, sourceHandle.h)]]
  /\ UNCHANGED <<prev, last, rpc, util, panelState>>

\* the names the iteration of the innermost call has yet to yield
ToYield(frame) ==
  OrderedNames((IF copying.live THEN KidNames(store, frame.dir)
                ELSE frame.snapshot) \ frame.past, copying.ord)

\* A copy nested deeper than MaxDepth is followed in a tree one level
\* shallower: with F the source of the outermost call kept and F/c the
\* source of the next, every call but the outermost works under F/c only,
\* so the outermost call is left out, every path F/c/x is renamed F/x and
\* the entries under F outside F/c are forgotten.  The calls kept take the
\* steps they take in the page; only the return to the call left out is
\* lost, and a copy that has been folded is never taken to have returned.
FoldAt(stack) == Parts(stack[1].from)
FoldName(stack) == Parts(stack[2].from)[Len(FoldAt(stack)) + 1]
UnderFold(stack, p) == IsPrefix(Append(FoldAt(stack), FoldName(stack)), p)
Contracted(stack, p) ==
  FoldAt(stack) \o SubSeq(p, Len(FoldAt(stack)) + 2, Len(p))

Foldable(stack) ==
  \A k \in 2..Len(stack) :
    /\ UnderFold(stack, Parts(stack[k].from))
    /\ UnderFold(stack, Parts(stack[k].to))
    /\ stack[k].pc = "iterate" => UnderFold(stack, stack[k].dir)

FoldFrame(stack, f) ==
  [f EXCEPT !.from = Canon(Contracted(stack, Parts(f.from))),
            !.to = Canon(Contracted(stack, Parts(f.to))),
            !.dir = IF f.pc = "iterate" THEN Contracted(stack, f.dir) ELSE f.dir]

FoldStack(stack) == [k \in 1..(Len(stack) - 1) |-> FoldFrame(stack, stack[k + 1])]

FoldStore(stack, st) ==
  LET outside == {p \in DOMAIN st : ~IsPrefix(FoldAt(stack), p)}
      under == {p \in DOMAIN st : UnderFold(stack, p)}
  IN [q \in outside \cup {Contracted(stack, p) : p \in under} |->
        IF q \in outside THEN st[q]
        ELSE st[Append(FoldAt(stack), FoldName(stack))
                  \o SubSeq(q, Len(FoldAt(stack)) + 1, Len(q))]]

\* one turn of "for await (const [name] of sourceDir.entries())": the next
\* entry's copyEntry is called, or the loop ends and the call returns
CopyIterates ==
  /\ CopyRunning
  /\ copying.stack # <<>>
  /\ Top.pc = "iterate"
  /\ LET names == ToYield(Top)
         called == Append([copying.stack EXCEPT
                             ![Len(copying.stack)].past = @ \cup {Head(names)}],
                          Frame(Top.from \o <<SLASH, Head(names)>>,
                                Top.to \o <<SLASH, Head(names)>>))
     IN IF Len(names) = 0
        THEN copying' = Popped /\ store' = store
        ELSE IF Len(copying.stack) < MaxDepth
        THEN copying' = [copying EXCEPT !.stack = called] /\ store' = store
        ELSE /\ Foldable(called)
             /\ copying' = [copying EXCEPT !.stack = FoldStack(called),
                                           !.folded = TRUE]
             /\ store' = FoldStore(called, store)
  /\ UNCHANGED <<prev, last, rpc, util, panelState>>

\* the outermost copyEntry has returned: fs.copy resolves; fs.move goes on
\* to deleteEntry(from, true)
CopyFinishes ==
  /\ CopyRunning
  /\ ~copying.folded
  /\ copying.stack = <<>>
  /\ IF copying.cmd = "fs.copy"
     THEN copying' = [copying EXCEPT !.state = "returned"] /\ store' = store
     ELSE \E d \in {deleteEntry(store, copying.from, TRUE)} :
            /\ store' = d.st
            /\ copying' = IF d.err # "" THEN CopyRejected(d.err)
                          ELSE [copying EXCEPT !.state = "returned"]
  /\ UNCHANGED <<prev, last, rpc, util, panelState>>

\* every tree of up to n entries no deeper than two segments, its files
\* holding "a"
TreesUpTo(n) ==
  {P \in SUBSET {Parts(p) : p \in CopyPaths \ {<<SLASH>>}} :
     /\ Cardinality(P) <= n
     /\ \A q \in P : Len(q) = 1 \/ Front(q) \in P}
StoresUpTo(n) ==
  UNION {{[q \in P \cup {RootPath} |->
             IF q \in F THEN FileNode(<<97>>) ELSE DirNode] :
          F \in SUBSET {q \in P : \A r \in P : r = q \/ ~IsPrefix(q, r)}} :
         P \in TreesUpTo(n)}
CopyStores == StoresUpTo(MaxEntries)

\* the stores a copy followed step by step starts from have up to
\* MaxCopyEntries entries
MaxCopyEntries == 2

InitStep ==
  /\ store \in StoresUpTo(MaxCopyEntries)
  /\ prev = store
  /\ last = Idle
  /\ InitRpc
  /\ util = NoCall
  /\ InitUi

InitCopy ==
  /\ store \in CopyStores
  /\ prev = store
  /\ last = Idle
  /\ InitRpc
  /\ util = NoCall
  /\ InitUi

NextCopy ==
  \/ CopyCalled
  \/ CopyResolves
  \/ CopyIterates
  \/ CopyFinishes

\* one fs.copy or fs.move, one call of the platform at a time, on every
\* store of up to MaxCopyEntries entries
SpecCopy == InitStep /\ [][NextCopy]_vars

\* the page runs the continuation of every promise that has resolved
CopyStep ==
  \/ CopyResolves
  \/ CopyIterates
  \/ CopyFinishes

SpecCopyFair == SpecCopy /\ WF_vars(CopyStep)

(* --------------------------------- C33 --------------------------------- *)
\* the destination lies strictly inside the source
Inside(to, from) == IsPrefix(Parts(from), Parts(to)) /\ Parts(from) # Parts(to)

\* C33 (as stated): fs.copy and fs.move return after finitely many steps,
\* on every store and for every from and to, the destination being the
\* source or lying inside it included
C33_CopyTerminates ==
  CopyRunning ~> copying.state \in {"returned", "rejected"}

\* a copy whose destination is not inside its source does return
CopyOutsideTerminates ==
  (CopyRunning /\ ~Inside(copying.to, copying.from))
     ~> copying.state \in {"returned", "rejected"}

\* the calls nest MaxDepth deep only when the destination lies inside the
\* source, and a copy nested deeper can always be followed
DeepOnlyInside ==
  /\ (CopyRunning /\ Len(copying.stack) = MaxDepth) =>
        Inside(copying.to, copying.from)
  /\ (CopyRunning /\ Len(copying.stack) = MaxDepth /\ Top.pc = "iterate"
        /\ Len(ToYield(Top)) > 0) => ENABLED CopyIterates

\* a copy followed beyond MaxDepth calls never comes back to the calls left
\* out
FoldedNeverReturns ==
  copying.folded => copying.state = "running" /\ copying.stack # <<>>

(* ------------- the executor of the module src/devtools/index.ts --------- *)
\* the platform a page runs on: navigator.storage may be missing, and so may
\* its getDirectory
Platforms == {"full", "no storage", "no getDirectory"}

\* failures whose message is empty
SilentFailures == {[name |-> n, message |-> <<>>] : n \in FailureNames}

\* isAvailable of the inline executor on platform pf, getDirectory()
\* rejecting with e (NoException when it resolves): 'Cannot access OPFS: '
\* + (err.message || e)
isAvailable(pf, e) ==
  IF pf = "no storage"
  THEN [available |-> FALSE, reason |-> <<"Storage API not available">>]
  ELSE IF pf = "no getDirectory"
  THEN [available |-> FALSE, reason |-> <<"OPFS not supported">>]
  ELSE IF e = NoException THEN [available |-> TRUE]
  ELSE [available |-> FALSE,
        reason |-> <<"Cannot access OPFS: ">> \o ErrorMessage(e)]

\* isAvailable of the module: e instanceof Error ? e.message : String(e)
isAvailableModule(pf, e) ==
  IF pf = "no storage"
  THEN [available |-> FALSE, reason |-> <<"Storage API not available">>]
  ELSE IF pf = "no getDirectory"
  THEN [available |-> FALSE, reason |-> <<"OPFS not supported in this browser">>]
  ELSE IF e = NoException THEN [available |-> TRUE]
  ELSE [available |-> FALSE, reason |-> <<"Cannot access OPFS: ">> \o e.message]

\* copyEntry of the module: its loop reads the kind of every entry and makes
\* the same call for a file and for a directory
RECURSIVE copyEntryModule(_, _, _, _, _, _)
RECURSIVE CopyChildrenModule(_, _, _, _, _, _, _, _, _)
copyEntryModule(st, from, to, overwrite, ord, live) ==
  IF Overflow(st) THEN Thrown(st, "Overflow")
  ELSE
    The({IF sourceHandle.err # "" THEN Thrown(st, sourceHandle.err)
         ELSE IF st[sourceHandle.h].kind = "file"
              THEN CopyFileTo(st, st[sourceHandle.h].content, to)
              ELSE The({IF m.err # "" THEN m
                        ELSE CopyChildrenModule(m.st, sourceHandle.h, from, to,
                                                overwrite, ord, live,
                                                KidNames(m.st, sourceHandle.h), {}) :
                        m \in {mkdir(st, to)}}) :
         sourceHandle \in {getHandleAtPath(st, from)}})

CopyChildrenModule(st, dir, from, to, overwrite, ord, live, snapshot, past) ==
  LET present == IF live THEN KidNames(st, dir) ELSE snapshot
      names == OrderedNames(present \ past, ord)
  IN IF Len(names) = 0 THEN Done(st, Null)
     ELSE LET name == Head(names)
              newFrom == from \o <<SLASH, name>>
              newTo == to \o <<SLASH, name>>
          IN The({IF c.err # "" THEN c
                  ELSE CopyChildrenModule(c.st, dir, from, to, overwrite, ord,
                                          live, snapshot, past \cup {name}) :
                  c \in {IF IsFile(st, Append(dir, name))
                         THEN copyEntryModule(st, newFrom, newTo, overwrite, ord, live)
                         ELSE copyEntryModule(st, newFrom, newTo, overwrite, ord, live)}})

moveEntryModule(st, from, to, overwrite, ord, live) ==
  The({IF c.err # "" THEN c
       ELSE IF Overflow(c.st) THEN Thrown(c.st, "Overflow")
       ELSE deleteEntry(c.st, from, TRUE) :
       c \in {copyEntryModule(st, from, to, overwrite, ord, live)}})

\* the switch of handleOPFSRpc; the functions it calls that are, statement
\* for statement, those of the inline executor are the same operators
DispatchModule(st, command, params, ord, live) ==
  IF command = "opfs.isAvailable"
  THEN Done(st, isAvailableModule("full", NoException))
  ELSE IF command = "opfs.estimate"
       THEN Done(st, [usage |-> SumLen(st, DOMAIN st), quota |-> 0])
  ELSE IF command \in {"fs.copy", "fs.move"}
       THEN IF params.from = None \/ params.to = None THEN Thrown(st, "TypeError")
            ELSE IF command = "fs.copy"
                 THEN copyEntryModule(st, params.from[1], params.to[1],
                                      Flag(params.overwrite), ord, live)
                 ELSE moveEntryModule(st, params.from[1], params.to[1],
                                      Flag(params.overwrite), ord, live)
  ELSE IF params.path = None THEN Thrown(st, "TypeError")
  ELSE IF command = "fs.list"
       THEN list(st, params.path[1],
                 IF params.depth = None \/ params.depth[1] = 0 THEN 1
                 ELSE params.depth[1],
                 params.includeFiles # Some(FALSE),
                 params.includeDirs # Some(FALSE), ord)
  ELSE IF command = "fs.stat" THEN stat(st, params.path[1])
  ELSE IF command = "fs.readText"
       THEN readText(st, params.path[1], params.maxBytes)
  ELSE IF command = "fs.writeText"
       THEN IF params.text = None THEN writeUndefined(st, params.path[1])
            ELSE writeText(st, params.path[1], params.text[1])
  ELSE IF command = "fs.readBase64"
       THEN readBase64(st, params.path[1], params.maxBytes)
  ELSE IF command = "fs.writeBase64"
       THEN IF params.base64 = None
            THEN writeBase64(st, params.path[1], UndefinedAsBase64)
            ELSE writeBase64(st, params.path[1], params.base64[1])
  ELSE IF command = "fs.mkdir" THEN mkdir(st, params.path[1])
  ELSE IF command = "fs.createFile" THEN createFile(st, params.path[1])
  ELSE deleteEntry(st, params.path[1], Flag(params.recursive))

\* handleOPFSRpc(command, params); its catch block gives error.message as
\* it is
handleOPFSRpc(st, command, params, ord, live) ==
  IF command \notin Commands
  THEN [st |-> st, resp |-> ErrorResponse("UNKNOWN_COMMAND"),
        raised |-> NoException, message |-> <<"Unknown command: ", command>>,
        overflow |-> FALSE]
  ELSE The({[st |-> r.st,
             resp |-> IF r.err = "" THEN OkResponse(r.val)
                      ELSE ErrorResponse(ErrorCode(r.err)),
             raised |-> IF r.err = "" THEN NoException ELSE Exception(r.err),
             message |-> IF r.err = "" THEN <<>> ELSE Exception(r.err).message,
             overflow |-> r.err = "Overflow" \/ Overflow(r.st)] :
            r \in {DispatchModule(st, command, params, ord, live)}})

\* handleOPFSRpc when the first call a command makes on the backing store
\* rejects with e
handleOPFSRpcRejected(st, command, params, e) ==
  IF command \notin Commands THEN handleOPFSRpc(st, command, params, <<>>, TRUE)
  ELSE IF command = "opfs.isAvailable"
       THEN [st |-> st, resp |-> OkResponse([available |-> FALSE]),
             raised |-> NoException, message |-> <<>>, overflow |-> FALSE]
  ELSE [st |-> st, resp |-> ErrorResponse(ErrorCode(e.name)),
        raised |-> e, message |-> e.message, overflow |-> FALSE]

\* opfs.isAvailable on any platform; last keeps the platform and what
\* getDirectory() rejected with
IsAvailableOn ==
  Ready /\ \E pf \in Platforms, e \in {NoException} \cup Failures \cup SilentFailures :
    /\ pf # "full" => e = NoException
    /\ last' = [cmd |-> "opfs.isAvailable", params |-> NoParams,
                resp |-> OkResponse(isAvailable(pf, e)),
                raised |-> NoException, message |-> <<>>,
                platform |-> pf, caught |-> e]
    /\ prev' = store
    /\ UNCHANGED <<store, rpc, util, ui>>

\* a command whose first call on the backing store is rejected with a
\* failure that has no message
StoreRejectsSilently ==
  Ready /\ \E c \in Commands \ {"opfs.isAvailable"}, e \in SilentFailures :
    \E r \in {HandlerRejected(store, c, NoParams, e)} :
       /\ store' = r.st
       /\ prev' = store
       /\ last' = [cmd |-> c, params |-> NoParams, resp |-> r.resp,
                    raised |-> r.raised, message |-> r.message]
       /\ UNCHANGED <<rpc, util, ui>>

NextEquiv ==
  \/ Next
  \/ IsAvailableOn
  \/ StoreRejectsSilently

\* every command of Spec, on every platform and with failures that have no
\* message
SpecEquiv == Init /\ [][NextEquiv]_vars

(* --------------------------------- C37 --------------------------------- *)
\* the two executors agree on the command just answered, run from the store
\* it started on
SameAnswer(a, b) ==
  /\ a.st = b.st
  /\ a.resp = b.resp
  /\ a.message = b.message

OnPlatform == "platform" \in DOMAIN last

AgreeOnCommand ==
  (last.cmd # "none" /\ ~OnPlatform /\ last.raised \notin Failures \cup SilentFailures) =>
     \A ord \in Orders, live \in BOOLEAN :
        SameAnswer(Handler(prev, last.cmd, last.params, ord, live),
                   handleOPFSRpc(prev, last.cmd, last.params, ord, live))

AgreeOnRefusal ==
  (last.cmd # "none" /\ last.raised \in Failures) =>
     SameAnswer(HandlerRejected(prev, last.cmd, last.params, last.raised),
                handleOPFSRpcRejected(prev, last.cmd, last.params, last.raised))

AgreeOnSilentRefusal ==
  (last.cmd # "none" /\ last.raised \in SilentFailures) =>
     SameAnswer(HandlerRejected(prev, last.cmd, last.params, last.raised),
                handleOPFSRpcRejected(prev, last.cmd, last.params, last.raised))

AgreeOnPlatform ==
  OnPlatform =>
     isAvailable(last.platform, last.caught) = isAvailableModule(last.platform, last.caught)

\* the two answers to opfs.isAvailable differ only where getDirectory is
\* missing or rejects without a message
DifferOnlyInReason ==
  OnPlatform =>
     \/ isAvailable(last.platform, last.caught) = isAvailableModule(last.platform, last.caught)
     \/ /\ last.platform = "no getDirectory" \/ last.caught \in SilentFailures
        /\ isAvailable(last.platform, last.caught).available
             = isAvailableModule(last.platform, last.caught).available

\* C37 (as stated): for every command, every parameter value and every
\* store, on every platform and whatever the backing store refuses, the
\* inline executor and handleOPFSRpc give the same response (ok and data, or
\* error code and message) and leave the same store
C37_ExecutorsEquivalent ==
  /\ AgreeOnCommand
  /\ AgreeOnRefusal
  /\ AgreeOnSilentRefusal
  /\ AgreeOnPlatform

\* what holds: the two agree on every command run on a full platform and on
\* every refusal that carries a message, and always on the store
ExecutorsAgreeOnStore ==
  /\ AgreeOnCommand
  /\ AgreeOnRefusal
  /\ DifferOnlyInReason
  /\ (last.cmd # "none" /\ last.raised \in SilentFailures) =>
       \E a \in {HandlerRejected(prev, last.cmd, last.params, last.raised)},
          b \in {handleOPFSRpcRejected(prev, last.cmd, last.params, last.raised)} :
         a.st = b.st /\ a.resp = b.resp /\ a.message = <<last.raised.name>>
           /\ b.message = <<>>

(* ------------------------- renaming in the panel ------------------------ *)
\* what the rename dialog hands over: value.trim() of a value that is not
\* blank, over the names of the model's entries, the separator and the dot
\* names
RenameNames ==
  {s \in Strings(Chars, 3) :
     /\ s # <<>>
     /\ \A i \in 1..Len(StrSplit(s)) :
          StrSplit(s)[i] \in {<<>>, <<"a">>, <<"b">>, <<".">>, <<".", ".">>}}

\* handleRename(newName) on the selected entry: the new path is made with
\* dirname and join, and fs.move does the rest; util keeps the selected
\* path, the name and the new path
HandleRename ==
  Ready /\ \E p \in DOMAIN store \ {RootPath}, newName \in RenameNames,
              ord \in Orders, live \in BOOLEAN :
    LET pathToRename == Canon(p)
        parentPath == dirname(pathToRename)
        newPath == join(<<parentPath, newName>>)
    IN /\ util' = [fn |-> "handleRename", args |-> <<pathToRename, newName>>,
                   result |-> newPath]
       /\ \E r \in {Handler(store, "fs.move",
                            [NoParams EXCEPT !.from = Some(Tokenize(pathToRename)),
                                             !.to = Some(Tokenize(newPath))],
                            ord, live)} :
            /\ ~r.overflow
            /\ store' = r.st
            /\ prev' = store
            /\ last' = [cmd |-> "fs.move",
                        params |-> [NoParams EXCEPT
                                      !.from = Some(Tokenize(pathToRename)),
                                      !.to = Some(Tokenize(newPath))],
                        resp |-> r.resp, raised |-> r.raised,
                        message |-> r.message]
       /\ UNCHANGED <<rpc, ui>>

NextRename == HandleRename

\* the panel renaming one entry of any store of up to MaxEntries entries
SpecRename == InitCopy /\ [][NextRename]_vars

(* --------------------------------- C38 --------------------------------- *)
Renamed == last.cmd = "fs.move" /\ util.fn = "handleRename"
OldPath == Parts(Tokenize(util.args[1]))
NewPath == Parts(Tokenize(util.result))

\* C38 (as stated): after handleRename(newName), for every name that is not
\* blank, the entry's current name included, what the entry held is at the
\* old path or at the new path
C38_RenameKeepsData ==
  Renamed =>
    \/ Untouched(store, prev, OldPath)
    \/ HoldsCopyOf(store, NewPath, prev, OldPath)

\* the same for the names that make a new path apart from the old one
RenameApartKeepsData ==
  (Renamed /\ Apart(OldPath, NewPath)) =>
    \/ Untouched(store, prev, OldPath)
    \/ HoldsCopyOf(store, NewPath, prev, OldPath)

\* data is lost only when the new path is the old one or lies above it
LostOnlyOnto ==
  (Renamed /\ ~Untouched(store, prev, OldPath)
           /\ ~HoldsCopyOf(store, NewPath, prev, OldPath)) =>
    IsPrefix(NewPath, OldPath)

(* ---------------- the persisted store: recents and favorites ------------ *)
\* "[item, ...filtered].slice(0, 20)"
RECENTS_LIMIT == 20

\* paths are compared with ===; the model names them 1, 2, ...
MaxRecentPaths == 21
\* the readings of the clock an item is added at; the items a session
\* finds in the list were added at 0
MaxStamp == 2
\* the favorites tried are those of the first MaxFavoritePaths paths, with
\* either of two names
MaxFavoritePaths == 2

RecentItem(path, timestamp) == [path |-> path, timestamp |-> timestamp]
Favorite(path, name) == [path |-> path, name |-> name]

\* the items a call may hand over: a path at the end of a full list, one in
\* its middle, the one at its front and one the list has never held
AddedPaths == {1, 10, RECENTS_LIMIT, MaxRecentPaths}
RecentItems == {RecentItem(p, t) : p \in AddedPaths, t \in 1..MaxStamp}
Favorites == {Favorite(p, n) : p \in 1..MaxFavoritePaths, n \in {"a", "b"}}

\* Array.prototype.slice(0, n)
Slice(s, n) == SubSeq(s, 1, IF Len(s) < n THEN Len(s) ELSE n)

\* an addRecent that keeps the item's earlier entry
addRecentUnfiltered(state, item) == Slice(<<item>> \o state, RECENTS_LIMIT)

\* addRecent(item): the new value of recents
addRecent(state, item) ==
  LET filtered == SelectSeq(state, LAMBDA r : r.path # item.path)
  IN Slice(<<item>> \o filtered, RECENTS_LIMIT)

\* addFavorite(favorite): the new value of favorites
addFavorite(state, favorite) ==
  IF \E i \in 1..Len(state) : state[i].path = favorite.path THEN state
  ELSE Append(state, favorite)

\* removeFavorite(path): the new value of favorites
removeFavorite(state, path) == SelectSeq(state, LAMBDA f : f.path # path)

editor == <<history, historyIndex, pending>>

AddRecentOf(item) ==
  /\ recents' = addRecent(recents, item)
  /\ UNCHANGED <<store, prev, last, rpc, util, copying, favorites, editor>>

AddRecent == \E item \in RecentItems : AddRecentOf(item)

ClearRecents ==
  /\ recents' = <<>>
  /\ UNCHANGED <<store, prev, last, rpc, util, copying, favorites, editor>>

AddFavoriteOf(favorite) ==
  /\ favorites' = addFavorite(favorites, favorite)
  /\ UNCHANGED <<store, prev, last, rpc, util, copying, recents, editor>>

AddFavorite == \E favorite \in Favorites : AddFavoriteOf(favorite)

RemoveFavorite ==
  /\ \E p \in 1..MaxFavoritePaths : favorites' = removeFavorite(favorites, p)
  /\ UNCHANGED <<store, prev, last, rpc, util, copying, recents, editor>>

\* the lists a session starts with are those the persist middleware kept
\* from the sessions before: none, or the paths 1..k added in turn
InitPersisted ==
  /\ store = EmptyStore
  /\ prev = EmptyStore
  /\ last = Idle
  /\ InitRpc
  /\ util = NoCall
  /\ copying = NotCopying
  /\ recents \in {[i \in 1..k |-> RecentItem(k + 1 - i, 0)] : k \in 0..RECENTS_LIMIT}
  /\ favorites = <<>>
  /\ history = <<>>
  /\ historyIndex = -1
  /\ pending = {}

NextPersisted ==
  \/ AddRecent
  \/ ClearRecents
  \/ AddFavorite
  \/ RemoveFavorite

SpecPersisted == InitPersisted /\ [][NextPersisted]_vars

(* --------------------------------- C39 --------------------------------- *)
NoTwoWithSamePath(s) ==
  \A i, j \in 1..Len(s) : s[i].path = s[j].path => i = j

\* the items of s other than those of path p, in order
Others(s, p) == SelectSeq(s, LAMBDA r : r.path # p)

PersistedLists ==
  /\ Len(recents) <= RECENTS_LIMIT
  /\ NoTwoWithSamePath(recents)
  /\ NoTwoWithSamePath(favorites)

PersistedSteps ==
  /\ \A item \in RecentItems :
       AddRecentOf(item) =>
         /\ recents'[1] = item
         /\ Others(recents', item.path)
              = Slice(Others(recents, item.path), RECENTS_LIMIT - 1)
  /\ ClearRecents => recents' = <<>>
  /\ \A favorite \in Favorites :
       AddFavoriteOf(favorite) =>
         IF \E i \in 1..Len(favorites) : favorites[i].path = favorite.path
         THEN favorites' = favorites
         ELSE favorites' = Append(favorites, favorite)

\* C39: after any sequence of addRecent, clearRecents, addFavorite and
\* removeFavorite the recents hold at most 20 items, no two with the same
\* path, the item added last first and the others in their earlier order;
\* the favorites hold no two items with the same path, and addFavorite of a
\* path already present leaves the list as it was
C39_RecentsAndFavorites == []PersistedLists /\ [][PersistedSteps]_vars

\* a path the full list never held was added, the oldest item went, and a
\* favorite was refused a second entry under another name
C39_Witness ==
  /\ Len(recents) = RECENTS_LIMIT
  /\ recents[1].path = MaxRecentPaths
  /\ recents[2] = RecentItem(1, 2)
  /\ recents[RECENTS_LIMIT].path = 3
  /\ favorites = <<Favorite(2, "a"), Favorite(1, "b")>>

(* ---------------------- the image editor's history ---------------------- *)
\* "if (newHistory.length > 20) newHistory.shift()"
HISTORY_LIMIT == 20

\* data URLs are named by number; the image as loaded is FirstUrl, and the
\* states of a history found open are the urls up to FirstUrl
FirstUrl == 20
\* the edits followed give the urls above FirstUrl, up to MaxUrl
MaxUrl == 22

\* the state at index i of the code is history[i + 1]
\* pushHistory(dataUrl) with the history and historyIndex of the render
\* its callback was made in
pushHistory(h, i, dataUrl) ==
  LET newHistory == SubSeq(h, 1, i + 1) \o <<dataUrl>>
      limited == IF Len(newHistory) > HISTORY_LIMIT THEN Tail(newHistory)
                 ELSE newHistory
  IN [history |-> limited, historyIndex |-> Len(limited) - 1]

lists == <<recents, favorites>>

\* loadImage's img.onload: the image as loaded is the only state
LoadImage ==
  /\ history = <<>>
  /\ history' = <<FirstUrl>>
  /\ historyIndex' = 0
  /\ UNCHANGED <<store, prev, last, rpc, util, copying, lists, pending>>

UrlsOf(h) == {h[k] : k \in 1..Len(h)}
UrlsInUse ==
  UrlsOf(history) \cup {e.dataUrl : e \in pending}
    \cup UNION {UrlsOf(e.history) : e \in pending}
NextUrl == 1 + CHOOSE u \in UrlsInUse : \A v \in UrlsInUse : v <= u

\* rotate, flipHorizontal, flipVertical, applyCrop or applyResize is
\* clicked: the current state is given to a new Image, whose onload will
\* call the pushHistory of this render
StartEdit ==
  /\ historyIndex >= 0
  /\ historyIndex < Len(history)
  /\ NextUrl <= MaxUrl
  /\ pending' = pending \cup {[history |-> history, historyIndex |-> historyIndex,
                               dataUrl |-> NextUrl]}
  /\ UNCHANGED <<store, prev, last, rpc, util, copying, lists, history, historyIndex>>

\* the onload of an edit's image runs: pushHistory(canvas.toDataURL())
EditLoadsOf(e) ==
  /\ e \in pending
  /\ \E r \in {pushHistory(e.history, e.historyIndex, e.dataUrl)} :
       /\ history' = r.history
       /\ historyIndex' = r.historyIndex
  /\ pending' = pending \ {e}
  /\ UNCHANGED <<store, prev, last, rpc, util, copying, lists>>

EditLoads == \E e \in pending : EditLoadsOf(e)

Undo ==
  /\ history # <<>>
  /\ historyIndex' = IF historyIndex > 0 THEN historyIndex - 1 ELSE historyIndex
  /\ UNCHANGED <<store, prev, last, rpc, util, copying, lists, history, pending>>

Redo ==
  /\ history # <<>>
  /\ historyIndex' = IF historyIndex < Len(history) - 1 THEN historyIndex + 1
                     ELSE historyIndex
  /\ UNCHANGED <<store, prev, last, rpc, util, copying, lists, history, pending>>

\* the editor before its image has loaded, or open on a history of 1, 2, 3,
\* HISTORY_LIMIT - 1 or HISTORY_LIMIT states made by edits, at any index
\* undo leads to
OpenLengths == {1, 2, 3, HISTORY_LIMIT - 1, HISTORY_LIMIT}
InitEditor ==
  /\ store = EmptyStore
  /\ prev = EmptyStore
  /\ last = Idle
  /\ InitRpc
  /\ util = NoCall
  /\ copying = NotCopying
  /\ recents = <<>>
  /\ favorites = <<>>
  /\ pending = {}
  /\ \/ history = <<>> /\ historyIndex = -1
     \/ \E n \in OpenLengths :
          /\ history = [k \in 1..n |-> FirstUrl - n + k]
          /\ historyIndex \in 0..(n - 1)

NextEditor ==
  \/ LoadImage
  \/ StartEdit
  \/ EditLoads
  \/ Undo
  \/ Redo

SpecEditor == InitEditor /\ [][NextEditor]_vars

(* --------------------------------- C40 --------------------------------- *)
HistoryInBounds ==
  IF history = <<>> THEN historyIndex = -1
  ELSE 0 <= historyIndex /\ historyIndex < Len(history)
         /\ Len(history) <= HISTORY_LIMIT

UndoRedoAtEnds ==
  /\ (Undo /\ historyIndex = 0) => UNCHANGED <<history, historyIndex>>
  /\ (Redo /\ historyIndex = Len(history) - 1) => UNCHANGED <<history, historyIndex>>
  /\ (Undo /\ historyIndex > 0) =>
       historyIndex' = historyIndex - 1 /\ history' = history
  /\ (Redo /\ historyIndex < Len(history) - 1) =>
       historyIndex' = historyIndex + 1 /\ history' = history

\* the new history is the states of h up to index i and then dataUrl, the
\* oldest left out when that makes more than HISTORY_LIMIT
PushedOnto(h, i, dataUrl) ==
  /\ historyIndex' = Len(history') - 1
  /\ history'[Len(history')] = dataUrl
  /\ LET kept == SubSeq(h, 1, i + 1)
     IN Front(history') = IF Len(kept) = HISTORY_LIMIT THEN Tail(kept) ELSE kept

\* an edit discards what lies after the index current when its pushHistory
\* runs
EditDiscardsAfterCurrent ==
  \A e \in pending :
    EditLoadsOf(e) => PushedOnto(history, historyIndex, e.dataUrl)

\* an edit discards what lay after the index current when it was clicked
EditDiscardsAfterClicked ==
  \A e \in pending :
    EditLoadsOf(e) => PushedOnto(e.history, e.historyIndex, e.dataUrl)

\* C40 (as stated): once the image has loaded, after any sequence of edits,
\* undo and redo, 0 <= historyIndex < history.length <= 20; undo at index 0
\* and redo at the last index change nothing; an edit after undo discards
\* every state after the current index and makes the new state the last and
\* current one
C40_History ==
  /\ []HistoryInBounds
  /\ [][UndoRedoAtEnds /\ EditDiscardsAfterCurrent]_vars

\* what holds: the bounds, undo and redo at the ends, and every edit taken
\* with the history and index of the moment it was clicked
HistoryAsClicked ==
  /\ []HistoryInBounds
  /\ [][UndoRedoAtEnds /\ EditDiscardsAfterClicked]_vars

\* what holds: an edit whose image loads before anything else happens does
\* as the claim says
EditAloneDiscards ==
  [][\A e \in pending :
       (EditLoadsOf(e) /\ e.history = history /\ e.historyIndex = historyIndex)
          => PushedOnto(history, historyIndex, e.dataUrl)]_vars

====
